---------------------------- MODULE Spec2Model ----------------------------
(***************************************************************************)
(* One POST /process request of the SmartClassroom lecture pipeline.       *)
(*                                                                         *)
(* The repository holds five near-duplicate versions of the handler; the   *)
(* variable `variant` says which one serves the request:                   *)
(*   1  src/index.js 42-222      one language, Bedrock, plain PDF          *)
(*   2  src/index.js 269-639     English + Hindi jobs, transliteration     *)
(*   3  src/index.js 1030-1261   ChatGPT -> Gemini -> Bedrock fallback,    *)
(*                               e-mail and Telegram notification          *)
(*   4  src/unnamed/part_000     req.file check, per-frame OCR catch,      *)
(*                               robust extraction, classic + modern PDF   *)
(*   5  src/unnamed/part_001     Whisper + ChatGPT, PDF kept locally       *)
(*                                                                         *)
(* A text is a sequence of one-character strings.  An action is the code   *)
(* the handler runs for one external call: the call, its result (drawn     *)
(* with \E) and the synchronous code up to the next call.                  *)
(***************************************************************************)
EXTENDS Integers, Sequences, FiniteSets, TLC

(* ------------------------------ bounds -------------------------------- *)

\* Largest number of frames the frames directory holds.
MaxFrames == 2

\* Largest number of polls a job answers with a non-terminal status before
\* it answers with its terminal status.
MaxDelay == 2

\* Largest number of deletes that raise within one safeCleanup call.
MaxDeleteFails == 1

\* The poll counter saturates here; a job that never ends is polled on.
MaxPolls == MaxDelay + 2

\* Requests served side by side.
MaxRequests == 2

\* Values of the millisecond clock read by Date.now().
MaxClock == 2

(* ------------------------------- texts -------------------------------- *)

\* JavaScript's undefined / null, kept apart from every text.
Undefined == <<"undefined">>

\* JavaScript truthiness of a string-or-undefined value.
Truthy(v) == v # Undefined /\ v # <<>>

\* a || b
OrElse(a, b) == IF Truthy(a) THEN a ELSE b

IsSpace(c) == c \in {" ", "\n", "\t"}

RECURSIVE TrimStart(_)
TrimStart(s) ==
  IF s # <<>> /\ IsSpace(Head(s)) THEN TrimStart(Tail(s)) ELSE s

RECURSIVE TrimEnd(_)
TrimEnd(s) ==
  IF s # <<>> /\ IsSpace(s[Len(s)]) THEN TrimEnd(SubSeq(s, 1, Len(s) - 1)) ELSE s

\* Variation: the length is taken without trimming.
Untrimmed(s) == s

\* String.prototype.trim
Trim(s) == TrimEnd(TrimStart(s))

\* Array.prototype.join
RECURSIVE Join(_, _)
Join(parts, sep) ==
  IF parts = <<>> THEN <<>>
  ELSE IF Len(parts) = 1 THEN parts[1]
  ELSE parts[1] \o sep \o Join(Tail(parts), sep)

Digit(d) == <<"0", "1", "2", "3", "4", "5", "6", "7", "8", "9">>[d + 1]

\* Number-to-string conversion of a natural number.
RECURSIVE NumToText(_)
NumToText(n) ==
  IF n < 10 THEN <<Digit(n)>> ELSE NumToText(n \div 10) \o <<Digit(n % 10)>>

\* The placeholder texts of the handlers (their leading emoji left out).
NoOutputGenerated ==
  <<"N","o"," ","o","u","t","p","u","t"," ","g","e","n","e","r","a","t","e","d",".">>

NoOutputFromBedrock ==
  <<"N","o"," ","o","u","t","p","u","t"," ","g","e","n","e","r","a","t","e","d"," ","f",
    "r","o","m"," ","B","e","d","r","o","c","k",".">>

FailedAllModels ==
  <<"F","a","i","l","e","d"," ","t","o"," ","g","e","n","e","r","a","t","e"," ","n","o",
    "t","e","s"," ","w","i","t","h"," ","a","l","l"," ","m","o","d","e","l","s",".">>

EmptyOutputPrefix ==
  <<"M","o","d","e","l"," ","r","e","t","u","r","n","e","d"," ","e","m","p","t","y"," ",
    "o","u","t","p","u","t","."," ","T","r","a","n","s","c","r","i","p","t"," ","l","e",
    "n","g","t","h",":"," ">>

NoTranscriptAvailable ==
  <<"N","o"," ","t","r","a","n","s","c","r","i","p","t"," ","a","v","a","i","l","a","b",
    "l","e",".">>

EnglishLabel ==
  <<"\n","-","-","-"," ","E","n","g","l","i","s","h"," ","T","r","a","n","s","c","r","i",
    "p","t","i","o","n"," ","-","-","-","\n">>

HindiLabel ==
  <<"\n","\n","-","-","-"," ","H","i","n","d","i"," ","(","R","o","m","a","n","i","z","e",
    "d",")"," ","T","r","a","n","s","c","r","i","p","t","i","o","n"," ","-","-","-","\n">>

(* ------------------------------ text lines ---------------------------- *)

\* The characters U+2022 (bullet) and U+0060 (backtick), which a string
\* of a module cannot hold.
BulletChar == "(U+2022)"
Backtick == "(U+0060)"

DigitChars == {"0", "1", "2", "3", "4", "5", "6", "7", "8", "9"}

\* String.prototype.split("\n")
RECURSIVE Split(_)
Split(s) ==
  IF \A i \in 1..Len(s) : s[i] # "\n" THEN <<s>>
  ELSE LET k == CHOOSE i \in 1..Len(s) : s[i] = "\n" /\ \A j \in 1..(i - 1) : s[j] # "\n"
       IN <<SubSeq(s, 1, k - 1)>> \o Split(SubSeq(s, k + 1, Len(s)))

\* String.prototype.startsWith
StartsWith(s, prefix) ==
  Len(s) >= Len(prefix) /\ SubSeq(s, 1, Len(prefix)) = prefix

\* String.prototype.includes
Includes(s, part) ==
  \E i \in 1..(Len(s) - Len(part) + 1) : SubSeq(s, i, i + Len(part) - 1) = part

\* The text from position i on.
From(s, i) == SubSeq(s, i, Len(s))

\* Number of leading characters of s that are in set.
RECURSIVE Leading(_, _)
Leading(s, set) ==
  IF s # <<>> /\ Head(s) \in set THEN 1 + Leading(Tail(s), set) ELSE 0

\* md.render followed by the removal of the tags, for the inline part of
\* a line: code spans keep their text and lose their backticks, "**"
\* outside a code span becomes <strong> tags.
RECURSIVE MdInline(_, _)
MdInline(s, inCode) ==
  IF s = <<>> THEN <<>>
  ELSE IF Head(s) = Backtick THEN MdInline(Tail(s), ~inCode)
  ELSE IF ~inCode /\ StartsWith(s, <<"*", "*">>) THEN MdInline(From(s, 3), inCode)
  ELSE <<Head(s)>> \o MdInline(Tail(s), inCode)

\* The same for the block marker that opens a line: an ATX heading
\* (one to six "#" and a space), a bullet item ("-", "*" or "+" and a
\* space), an ordered item (digits, "." or ")" and a space).
MdBlock(line) ==
  LET h == Leading(line, {"#"})
      d == Leading(line, DigitChars)
  IN IF h \in 1..6 /\ (Len(line) = h \/ IsSpace(line[h + 1]))
     THEN Trim(From(line, h + 1))
     ELSE IF Len(line) >= 2 /\ line[1] \in {"-", "*", "+"} /\ IsSpace(line[2])
     THEN TrimStart(From(line, 3))
     ELSE IF d \in 1..9 /\ Len(line) >= d + 2 /\ line[d + 1] \in {".", ")"}
             /\ IsSpace(line[d + 2])
     THEN TrimStart(From(line, d + 3))
     ELSE line

MdLine(line) == MdInline(MdBlock(line), FALSE)

NonBlank(line) == Trim(line) # <<>>

\* md.render(text).replace(/<\/?[^>]+(>|$)/g, "").split("\n").filter(non-blank)
RenderedLines(text) ==
  LET raw == Split(text)
  IN SelectSeq([i \in 1..Len(raw) |-> MdLine(raw[i])], NonBlank)

\* /\*\*.*\*\*/ : two asterisks and, anywhere after them, two more.
HasBoldSpan(line) ==
  \E i, j \in 1..Len(line) :
    /\ j >= i + 2
    /\ j + 1 <= Len(line)
    /\ line[i] = "*" /\ line[i + 1] = "*"
    /\ line[j] = "*" /\ line[j + 1] = "*"

\* /^[-*\u2022]\s/
HasBulletMarker(line) ==
  Len(line) >= 2 /\ line[1] \in {"-", "*", BulletChar} /\ IsSpace(line[2])

\* /^\d+\./
HasNumberMarker(line) ==
  LET d == Leading(line, DigitChars)
  IN d >= 1 /\ Len(line) > d /\ line[d + 1] = "."

\* The if / else-if chain of the drawing loop, on a trimmed line.
LineClass(line) ==
  IF StartsWith(line, <<"#">>) \/ HasBoldSpan(line) THEN "heading"
  ELSE IF HasBulletMarker(line) THEN "bullet"
  ELSE IF HasNumberMarker(line) THEN "numbered"
  ELSE "body"

\* String.prototype.toLowerCase on the letters of the basic alphabet.
UpperChars == <<"A","B","C","D","E","F","G","H","I","J","K","L","M",
                "N","O","P","Q","R","S","T","U","V","W","X","Y","Z">>
LowerChars == <<"a","b","c","d","e","f","g","h","i","j","k","l","m",
                "n","o","p","q","r","s","t","u","v","w","x","y","z">>

Lower(s) ==
  [i \in 1..Len(s) |->
     IF \E k \in 1..Len(UpperChars) : UpperChars[k] = s[i]
     THEN LowerChars[CHOOSE k \in 1..Len(UpperChars) : UpperChars[k] = s[i]]
     ELSE s[i]]

\* \w of a regular expression, on lower-case text.
WordChars == {LowerChars[i] : i \in 1..Len(LowerChars)} \cup DigitChars \cup {"_"}

\* /^(#*\s*)?summary\b/ on a trimmed lower-case line.
SummaryHeading(lower) ==
  LET rest == TrimStart(From(lower, Leading(lower, {"#"}) + 1))
      word == <<"s","u","m","m","a","r","y">>
  IN /\ StartsWith(rest, word)
     /\ (Len(rest) = Len(word) \/ rest[Len(word) + 1] \notin WordChars)

\* The keys of the sections object, in the order they are drawn.
SectionKeys == <<"summary", "notes", "keytopics", "references", "questions", "revision">>

\* The texts whose presence anywhere in a lower-case line selects a bucket.
Keywords(key) ==
  CASE key = "summary"    -> { <<"c","o","m","p","r","e","h","e","n","s","i","v","e"," ",
                               "l","e","c","t","u","r","e"," ","s","u","m","m","a","r",
                               "y">> }
    [] key = "notes"      -> { <<"c","l","a","s","s"," ","n","o","t","e","s">>,
                               <<"d","e","t","a","i","l","e","d"," ","c","l","a","s","s",
                               " ","n","o","t","e","s">> }
    [] key = "keytopics"  -> { <<"k","e","y"," ","t","o","p","i","c","s">>, <<"k","e","y",
                               "w","o","r","d","s">> }
    [] key = "references" -> { <<"r","e","f","e","r","e","n","c","e","s">> }
    [] key = "questions"  -> { <<"i","m","p","o","r","t","a","n","t"," ","q","u","e","s",
                               "t","i","o","n","s">>,
                               <<"m","c","q">>, <<"q","u","e","s","t","i","o","n","s">> }
    [] key = "revision"   -> { <<"r","e","v","i","s","i","o","n">>,
                               <<"q","u","i","c","k"," ","r","e","v","i","s","i","o","n">> }

\* The chain of keyword tests of the forEach callback, which runs in the
\* order of the keys: the bucket a line switches to, or "none" for a line
\* that is appended to the current bucket.
Keyword(lower) ==
  LET hit(i) == \/ SectionKeys[i] = "summary" /\ SummaryHeading(lower)
                \/ \E w \in Keywords(SectionKeys[i]) : Includes(lower, w)
  IN IF \E i \in 1..Len(SectionKeys) : hit(i)
     THEN SectionKeys[CHOOSE i \in 1..Len(SectionKeys) :
                        hit(i) /\ \A j \in 1..(i - 1) : ~hit(j)]
     ELSE "none"

NoSections == [k \in {SectionKeys[i] : i \in 1..Len(SectionKeys)} |-> <<>>]

(* --------------------------- input domains ---------------------------- *)

\* Marks a call that raises, and a value not assigned yet.
Raise == <<"raise">>
Nothing == <<"nothing">>

\* What Tesseract.recognize gives for one frame: a text, or it raises.
OcrTexts == { <<" ">>, <<"A">>, <<"B", "\n">> }

\* The transcript entries a result payload (results.transcripts) may hold.
SpokenTexts == { <<>>, <<"h", "i">> }
Payloads == { <<>>, << <<"h", "i">>, <<"y", "o">> >> } \cup { <<t>> : t \in SpokenTexts }

\* What the transliteration service maps a Hindi text to, and its answer
\* when resp.data[0] is not "SUCCESS".
Romanized == <<"n", "a", "m">>
NotSuccess == <<"FAILED_TO_PARSE_REQUEST_BODY">>

\* The text a language-model response field holds when it is populated.
FieldText(f) ==
  CASE f = "content"     -> <<"#"," ","S","u","m","m","a","r","y","\n","c","h","a","t">>
    [] f = "text"        -> <<"#"," ","N","o","t","e","s","\n","g","e","m","i","n","i">>
    [] f = "generation"  -> 
         <<"#","#"," ","C","l","a","s","s"," ","N","o","t","e","s","\n","p","l","a","i",
           "n","\n","S","e","e"," ","r","e","f","e","r","e","n","c","e","s","\n","m","o",
           "r","e">>
    [] f = "output_text" -> 
         <<"#","t","a","g"," ","x","\n",BulletChar," ","u","s","e"," ",Backtick,"*","*",
           "a",Backtick," ",Backtick,"*","*","b",Backtick,"\n","-"," ","i","t","e","m","\n",
           BulletChar," ","d","o","t">>
    [] f = "outputText"  -> <<"#"," ","N","o","t","e","s","\n","o","u","t","T","."      >>
    [] f = "output"      -> 
         <<"#"," ","S","u","m","m","a","r","y","\n","p","l","a","i","n","\n","Q","u","e",
           "s","t","i","o","n","s","?","\n","e","n","d">>
    [] f = "outputs0"    -> 
         <<"*","*","K","e","y","*","*","\n","1","."," ","s","t","e","p","\n","3",".","5",
           " ",Backtick,"x","*","*","2","+","y","*","*","2",Backtick,"\n","2",".","5",
           " ","k","m">>
    [] f = "content0"    -> 
         <<"#","#"," ","K","e","y"," ","T","o","p","i","c","s","\n",BulletChar," ","d",
           "o","t","\n","#"," ","R","e","v","i","s","i","o","n","\n","l","a","s","t">>
    [] f = "completions" -> <<"#"," ","N","o","t","e","s","\n","c","o","m","p","l","."  >>
    [] OTHER             -> <<"o", "k">>

\* A response field is absent, the empty string, or populated.
Tags == {"absent", "empty", "text"}

\* The fields of the Bedrock response body each variant probes.
ProbedFields(v) ==
  CASE v = 1 -> {"outputText", "completions"}
    [] v = 2 -> {"generation", "output_text", "outputs0"}
    [] v = 3 -> {"generation", "output_text", "output", "outputs0"}
    [] v = 4 -> {"output_text", "generation", "content0", "outputs0", "output"}
    [] OTHER -> {}

\* Body texts of nine and of ten characters between surrounding whitespace.
PaddedNine == <<" ","1","2","3","4","5","6","7","8","9"," ">>
PaddedTen  == <<" ","1","2","3","4","5","6","7","8","9","0","\n">>

\* The body text of a response that is not JSON.
InvalidRaw == { <<>>, <<"o","o","p","s">>,
                <<"B","a","d"," ","G","a","t","e","w","a","y"," ","5","0","2">>,
                PaddedNine, PaddedTen }

\* The body text of a JSON response: "{}" when no probed field is there.
RawJson(tags) ==
  IF \A f \in DOMAIN tags : tags[f] = "absent"
  THEN <<"{", "}">>
  ELSE <<"{","\"","f","\"",":","\"",".",".",".","\"","}">>

\* The response bodies bedrock.send may come back with in variant v.
Bodies(v) ==
  { [json |-> TRUE, raw |-> RawJson(t), tags |-> t] : t \in [ProbedFields(v) -> Tags] }
  \cup
  { [json |-> FALSE, raw |-> r, tags |-> [f \in ProbedFields(v) |-> "absent"]] :
      r \in InvalidRaw }

\* parsed.<f> of a body.
Field(b, f) ==
  CASE b.tags[f] = "absent" -> Undefined
    [] b.tags[f] = "empty"  -> <<>>
    [] OTHER                -> FieldText(f)

\* No response body at hand.
NoBody == [json |-> FALSE, raw |-> Nothing, tags |-> [f \in {} |-> "absent"]]

(* ------------------------------- state -------------------------------- *)

VARIABLES
  variant,        \* which version of the handler serves the request
  hasFile,        \* req.file is set
  pc,             \* the call the handler makes next
  fsys,           \* local files: path -> "absent" | "open" | "present"
  stream,         \* the PDF write stream: "none" | "pending" | "open" | "finished"
  frameFiles,     \* number of frames listed in framesDir
  frameIdx,       \* frames handled so far by the OCR loop
  ocrPending,     \* frames whose Tesseract.recognize call has not settled
  visualText,
  s3,             \* object storage: key -> "none" | "partial" | "whole"
  lang,           \* language of the job being run ("en-US" | "hi-IN")
  jobFate,        \* terminal status the submitted job reaches, or "STUCK"
  jobDelay,       \* polls answered with a non-terminal status first
  payload,        \* results.transcripts of the job's result payload
  polls,          \* polls made for the current job (saturating)
  status,         \* TranscriptionJobStatus of the last poll
  pollRaised,     \* a GetTranscriptionJob call raised
  submitted,      \* languages of the jobs submitted, in order
  translitAnswer, \* what the transliteration call came back with
  transcriptEN,
  transcriptHI,
  transcript,
  parsed,         \* the Bedrock response body being read (bodyString / parsed)
  finalNotes,
  usedModel,
  invoked,        \* language-model providers called, in order
  outcome,        \* provider -> "none" | "raised" | "returned"
  returned,       \* provider -> the text its response carried
  rendered,       \* the NotesDocument handed to the renderer
  fileName,       \* req.file.filename of each request served side by side
  jobClock,       \* Date.now() read for the job name of each such request, 0: none
  served,         \* how many of its local paths each such request has made
  disk,           \* the local files and directories, each with its writer
  pending,        \* the lines the renderer's loop has not read yet
  drawn,          \* variants 2, 3: the lines drawn and the class of each
  currents,       \* variant 4: per line of the document, current after it
  sections,       \* variant 4: the text of each of the six buckets
  modernPdfCreated,
  pdfReadAt,      \* state of the PDF file when it was read / reported
  notified,       \* notifications attempted, in order
  resp,           \* responses sent, in order
  cleanupTried,   \* paths handed to safeCleanup
  warned,         \* paths whose delete raised ("Cleanup skipped for:")
  started,        \* stages started, in order
  completed,      \* stages that returned without raising
  failed,         \* control is in the catch block (FAILED)
  failedAt,       \* the stage that raised
  errMessage      \* err.message of the error caught

vars == << variant, hasFile, fileName, jobClock, served, disk, pc, fsys, stream, frameFiles,
           frameIdx, ocrPending, visualText,
           s3, lang, jobFate, jobDelay, payload, polls, status, pollRaised,
           submitted, translitAnswer, transcriptEN, transcriptHI, transcript, parsed, finalNotes,
           usedModel, invoked, outcome, returned, rendered, pending, drawn, currents,
           sections,
           modernPdfCreated,
           pdfReadAt, notified, resp, cleanupTried, warned, started, completed,
           failed, failedAt, errMessage >>

Variants == 1..5

\* The requests that are in the handler at the same time.
Requests == 1..MaxRequests

\* multer({ dest: "uploads/" }): the upload is stored under a random name
\* of hexadecimal digits, all of one length, that no other upload has.
UploadsDir == <<"u","p","l","o","a","d","s","/">>
FileNames == { <<"0", "a">>, <<"a", "0">>, <<"0", "b">> }

\* path.basename
Basename(p) ==
  IF \E i \in 1..Len(p) : p[i] = "/"
  THEN From(p, 1 + CHOOSE i \in 1..Len(p) : p[i] = "/" /\ \A j \in (i + 1)..Len(p) : p[j] # "/")
  ELSE p

\* Variation: the PDF is written to one fixed file of the uploads directory.
pdfPathFixed(videoPath, v) == UploadsDir \o <<"n","o","t","e","s",".","p","d","f">>

\* const audioPath, framesDir, pdfPath (classicPdfPath), modernPdfPath
audioPathOf(videoPath) == videoPath \o <<".","w","a","v">>
framesDirOf(videoPath) == <<"f","r","a","m","e","s","/">> \o Basename(videoPath)
pdfPathOf(videoPath, v) ==
  IF v = 4 THEN videoPath \o <<"-","c","l","a","s","s","i","c",".","p","d","f">>
  ELSE videoPath \o <<".","p","d","f">>
modernPdfPathOf(videoPath) == videoPath \o <<"-","m","o","d","e","r","n",".","p","d","f">>

\* The local path a request whose upload is at videoPath uses for key.
LocalPath(key, videoPath, v) ==
  CASE key = "videoPath"     -> videoPath
    [] key = "audioPath"     -> audioPathOf(videoPath)
    [] key = "framesDir"     -> framesDirOf(videoPath)
    [] key = "pdfPath"       -> pdfPathOf(videoPath, v)
    [] key = "modernPdfPath" -> modernPdfPathOf(videoPath)

\* The keys of the paths a request makes, in the order it makes them.
PathKeys(v) ==
  <<"videoPath", "audioPath", "framesDir", "pdfPath">>
  \o (IF v = 4 THEN <<"modernPdfPath">> ELSE <<>>)

\* Local paths of a request, all derived from req.file.path.
Paths == {"videoPath", "audioPath", "framesDir", "pdfPath", "modernPdfPath"}

Providers == {"ChatGPT", "Gemini", "Bedrock"}

InitAt(at, notes) ==
  /\ variant \in Variants
  /\ hasFile \in BOOLEAN
  /\ fileName = [r \in Requests |-> Nothing]
  /\ jobClock = [r \in Requests |-> 0]
  /\ served = [r \in Requests |-> 0]
  /\ disk = {}
  /\ pc = at
  /\ fsys = [p \in Paths |-> IF p = "videoPath" /\ hasFile THEN "present" ELSE "absent"]
  /\ stream = "none"
  /\ frameFiles = 0
  /\ frameIdx = 0
  /\ ocrPending = {}
  /\ visualText = <<>>
  /\ s3 = [k \in {"audio", "notes"} |-> "none"]
  /\ lang = "en-US"
  /\ jobFate = "none"
  /\ jobDelay = 0
  /\ payload = <<>>
  /\ polls = 0
  /\ status = "none"
  /\ pollRaised = FALSE
  /\ submitted = <<>>
  /\ translitAnswer = Nothing
  /\ transcriptEN = Undefined
  /\ transcriptHI = Undefined
  /\ transcript = Undefined
  /\ parsed = NoBody
  /\ finalNotes \in notes
  /\ usedModel = "unset"
  /\ invoked = <<>>
  /\ outcome = [p \in Providers |-> "none"]
  /\ returned = [p \in Providers |-> Undefined]
  /\ rendered = Nothing
  /\ pending = <<>>
  /\ drawn = <<>>
  /\ currents = <<>>
  /\ sections = NoSections
  /\ modernPdfCreated = FALSE
  /\ pdfReadAt = "none"
  /\ notified = <<>>
  /\ resp = <<>>
  /\ cleanupTried = {}
  /\ warned = {}
  /\ started = <<>>
  /\ completed = {}
  /\ failed = FALSE
  /\ failedAt = "none"
  /\ errMessage = "none"

\* The state in which a handler is entered.
Init == InitAt("entry", {Undefined})

(* ------------------------- control and helpers ------------------------ *)

reqVars   == << variant, hasFile, fileName, jobClock, served, disk >>
mediaVars == << frameFiles, frameIdx, ocrPending, visualText >>
jobVars   == << lang, jobFate, jobDelay, payload, polls, status, pollRaised, submitted,
                translitAnswer >>
textVars  == << transcriptEN, transcriptHI, transcript >>
notesVars == << parsed, finalNotes, usedModel, invoked, outcome, returned >>
linesVars == << pending, drawn, currents, sections >>
pdfVars   == << stream, rendered, linesVars, modernPdfCreated,
               pdfReadAt >>
outVars   == << s3, notified, resp, cleanupTried, warned >>
stageVars == << started, completed >>

\* The messages an error raised by `stage` may carry (err.message).
ErrMessages(stage) == { stage \o " error", "" }

\* Variation: the handler runs the stage that raised once more.
ThrowRetries(stage, msg) ==
  /\ pc' = pc
  /\ failed' = TRUE
  /\ failedAt' = stage
  /\ errMessage' = msg

\* throw inside the try block: control enters the catch block.
Throw(stage, msg) ==
  /\ pc' = "catch"
  /\ failed' = TRUE
  /\ failedAt' = stage
  /\ errMessage' = msg

Goto(p) ==
  /\ pc' = p
  /\ UNCHANGED << failed, failedAt, errMessage >>

Begin(stage) == started' = Append(started, stage)

Finish(stage) == completed' = completed \cup {stage}

\* The stage that follows OCR: the Whisper variant has no audio upload.
AfterOcr == IF variant = 5 THEN "whisper" ELSE "s3audio"

(* --------------------- entry and media extraction --------------------- *)

\* Handler entry: the req.file check of variant 4, req.file.path and
\* fs.mkdirSync(framesDir), all before the try block.  A TypeError or a
\* mkdir error here is an unhandled rejection: nothing answers the request.
Entry ==
  /\ pc = "entry"
  /\ \E mkdirOk \in BOOLEAN :
       IF ~hasFile
       THEN /\ mkdirOk
            /\ IF variant = 4
               THEN /\ resp' = Append(resp, [status |-> 400, success |-> FALSE,
                                             body |-> "No video uploaded"])
                    /\ Goto("done")
               ELSE /\ Goto("crashed")
                    /\ UNCHANGED resp
            /\ UNCHANGED fsys
       ELSE /\ IF mkdirOk
               THEN /\ fsys' = [fsys EXCEPT !["framesDir"] = "present"]
                    /\ Goto("audio")
               ELSE /\ Goto("crashed")
                    /\ UNCHANGED fsys
            /\ UNCHANGED resp
  /\ UNCHANGED << reqVars, mediaVars, jobVars, textVars, notesVars, pdfVars,
                  s3, notified, cleanupTried, warned, stageVars >>

\* 1) ffmpeg(videoPath)...save(audioPath): resolves on "end", rejects on
\* "error" (a failed run may leave a partial output file behind).
ExtractAudio ==
  /\ pc = "audio"
  /\ Begin("audio")
  /\ \/ /\ fsys' = [fsys EXCEPT !["audioPath"] = "present"]
        /\ Finish("audio")
        /\ Goto("frames")
     \/ /\ \E left \in {"absent", "present"} :
             fsys' = [fsys EXCEPT !["audioPath"] = left]
        /\ \E m \in ErrMessages("audio") : Throw("audio", m)
        /\ UNCHANGED completed
  /\ UNCHANGED << reqVars, mediaVars, jobVars, textVars, notesVars, pdfVars, outVars >>

\* 2) ffmpeg(videoPath).output(framesDir/frame-%04d.jpg), fps=1/5.
ExtractFrames ==
  /\ pc = "frames"
  /\ Begin("frames")
  /\ \/ /\ Finish("frames")
        /\ Goto("ocr")
     \/ /\ \E m \in ErrMessages("frames") : Throw("frames", m)
        /\ UNCHANGED completed
  /\ UNCHANGED << reqVars, mediaVars, jobVars, textVars, notesVars, pdfVars,
                  outVars, fsys >>

(* -------------------------------- OCR --------------------------------- *)

\* visualText after one frame whose OCR gave `r` (a text or Raise).
\* Variant 4 trims the text and skips a blank one; the others append
\* "\n" + text whatever the text is.
OcrAppend(v, vt, r) ==
  IF v = 4
  THEN IF r # Raise /\ Trim(r) # <<>> THEN vt \o Trim(r) \o <<"\n">> ELSE vt
  ELSE vt \o <<"\n">> \o r

\* Only variant 4 wraps Tesseract.recognize in its own try/catch.
OcrAborts(v, r) == r = Raise /\ v # 4

\* 3) fs.readdirSync(framesDir): the frame list of the OCR loop.
ReadFrames ==
  /\ pc = "ocr"
  /\ Begin("ocr")
  /\ \/ /\ \E n \in 0..MaxFrames :
             /\ frameFiles' = n
             /\ IF n = 0
                THEN Finish("ocr") /\ Goto(AfterOcr)
                ELSE UNCHANGED completed /\ Goto("ocrFrame")
        /\ UNCHANGED << frameIdx, ocrPending, visualText >>
     \/ /\ \E m \in ErrMessages("ocr") : Throw("ocr", m)
        /\ UNCHANGED << mediaVars, completed >>
  /\ UNCHANGED << reqVars, jobVars, textVars, notesVars, pdfVars, outVars, fsys >>

\* Variation: the calls for all the frames left are started together.
OcrCallAll ==
  /\ pc = "ocrFrame"
  /\ ocrPending' = (frameIdx + 1)..frameFiles
  /\ Goto("ocrAwait")
  /\ UNCHANGED << reqVars, frameFiles, frameIdx, visualText, jobVars, textVars,
                  notesVars, pdfVars, outVars, fsys, stageVars >>

\* One pass of the loop: Tesseract.recognize(framePath, "eng") is called
\* for the next frame and the handler awaits it.
OcrCall ==
  /\ pc = "ocrFrame"
  /\ ocrPending' = ocrPending \cup {frameIdx + 1}
  /\ Goto("ocrAwait")
  /\ UNCHANGED << reqVars, frameFiles, frameIdx, visualText, jobVars, textVars,
                  notesVars, pdfVars, outVars, fsys, stageVars >>

\* The awaited call settles: its text is appended, or it raises.
OcrFrame ==
  /\ pc = "ocrAwait"
  /\ ocrPending' = ocrPending \ {frameIdx + 1}
  /\ \E r \in OcrTexts \cup {Raise} :
       IF OcrAborts(variant, r)
       THEN /\ \E m \in ErrMessages("ocr") : Throw("ocr", m)
            /\ UNCHANGED << frameFiles, frameIdx, visualText, completed >>
       ELSE /\ visualText' = OcrAppend(variant, visualText, r)
            /\ frameIdx' = frameIdx + 1
            /\ UNCHANGED frameFiles
            /\ IF frameIdx + 1 = frameFiles
               THEN Finish("ocr") /\ Goto(AfterOcr)
               ELSE UNCHANGED completed /\ Goto("ocrFrame")
  /\ UNCHANGED << reqVars, jobVars, textVars, notesVars, pdfVars, outVars, fsys,
                  started >>

(* ---------------------------- transcription --------------------------- *)

\* The stage that follows transcription: variant 3 starts its fallback chain.
NotesPc == IF variant = 3 THEN "chatgpt" ELSE "llm"

\* Variation: the upload is not awaited, the handler goes on at once.
UploadAudioNotAwaited ==
  /\ pc = "s3audio"
  /\ Begin("transcription")
  /\ s3' \in {s3, [s3 EXCEPT !["audio"] = "whole"]}
  /\ Goto("start")
  /\ UNCHANGED << reqVars, mediaVars, jobVars, textVars, notesVars, pdfVars,
                  notified, resp, cleanupTried, warned, fsys, completed >>

\* 4) fs.readFileSync(audioPath) and s3.send(PutObjectCommand audio/<name>.wav).
UploadAudio ==
  /\ pc = "s3audio"
  /\ Begin("transcription")
  /\ \/ /\ fsys["audioPath"] = "present"
        /\ s3' = [s3 EXCEPT !["audio"] = "whole"]
        /\ Goto("start")
     \/ /\ \E m \in ErrMessages("s3audio") : Throw("transcription", m)
        /\ UNCHANGED s3
  /\ UNCHANGED << reqVars, mediaVars, jobVars, textVars, notesVars, pdfVars,
                  notified, resp, cleanupTried, warned, fsys, completed >>

\* 5) transcribe.send(StartTranscriptionJobCommand): the service accepts
\* the job; how long it stays unfinished, how it ends and what its result
\* payload holds are the service's choice.
StartJob ==
  /\ pc = "start"
  /\ \/ /\ submitted' = Append(submitted, lang)
        /\ \E fate \in {"COMPLETED", "FAILED", "STUCK"}, d \in 0..MaxDelay,
              pl \in Payloads :
             /\ jobFate' = fate
             /\ jobDelay' = d
             /\ payload' = IF fate = "COMPLETED" THEN pl ELSE <<>>
        /\ polls' = 0
        /\ status' = "none"
        /\ Goto("poll")
        /\ UNCHANGED << lang, pollRaised >>
     \/ /\ \E m \in ErrMessages("start") : Throw("transcription", m)
        /\ UNCHANGED jobVars
  /\ UNCHANGED << reqVars, mediaVars, textVars, notesVars, pdfVars, outVars, fsys,
                  stageVars, translitAnswer >>

\* TranscriptionJobStatus the service reports at the poll after `k` polls.
StatusAt(k, d, fate) ==
  IF k < d THEN (IF k = 0 THEN "QUEUED" ELSE "IN_PROGRESS")
  ELSE IF fate = "STUCK" THEN "IN_PROGRESS" ELSE fate

\* Variation: the loop gives up after MaxDelay + 1 unfinished polls.
PollBranchCapped(v, st, k) ==
  IF st = "COMPLETED" THEN "fetch"
  ELSE IF st = "FAILED" THEN (IF v = 2 THEN "return" ELSE "throw")
  ELSE IF k >= MaxDelay + 1 THEN "throw"
  ELSE "wait"

\* Variation: a FAILED job counts as an empty transcript in every variant.
PollBranchFailedReturns(v, st, k) ==
  IF st = "COMPLETED" THEN "fetch"
  ELSE IF st = "FAILED" THEN "return"
  ELSE "wait"

\* Variation: a COMPLETED job is polled once more before its result is fetched.
PollBranchLate(v, st, k) ==
  IF st = "COMPLETED" THEN (IF k > MaxDelay THEN "fetch" ELSE "wait")
  ELSE IF st = "FAILED" THEN (IF v = 2 THEN "return" ELSE "throw")
  ELSE "wait"

\* Variation: transcribeJob returns "" for a job that is not finished yet.
PollBranchReturnsAtOnce(v, st, k) ==
  IF st = "COMPLETED" THEN "fetch"
  ELSE IF v = 2 THEN "return"
  ELSE IF st = "FAILED" THEN "throw"
  ELSE "wait"

\* Where the loop goes on a status: to the result fetch, out by a throw
\* (variants 1, 3, 4), out by return "" (transcribeJob of variant 2), or to
\* the fixed delay before the next poll.  There is no attempt count.
PollBranch(v, st, k) ==
  IF st = "COMPLETED" THEN "fetch"
  ELSE IF st = "FAILED" THEN (IF v = 2 THEN "return" ELSE "throw")
  ELSE "wait"

\* Variation: a payload whose transcript text is empty is refused.
PayloadTextNonEmpty(v, pl) ==
  IF pl = <<>> \/ pl[1] = <<>> THEN Raise
  ELSE IF v = 4 THEN Join(pl, <<"\n">>) ELSE pl[1]

\* err.message of the TypeError of transcripts[0].transcript.
NoTranscriptEntry == "Cannot read properties of undefined (reading 'transcript')"

\* The transcript text taken from the payload: transcripts[0].transcript
\* (a TypeError when there is none), or in variant 4 every entry joined
\* with "\n", or "" when that is empty.
PayloadText(v, pl) ==
  IF v = 4 THEN OrElse(Join(pl, <<"\n">>), <<>>)
  ELSE IF pl = <<>> THEN Raise ELSE pl[1]

\* transcribeJob's two-way merge of variant 2.
MergeTranscripts(en, hi) ==
  IF Truthy(en) /\ Truthy(hi)
  THEN EnglishLabel \o en \o HindiLabel \o hi \o <<"\n">>
  ELSE OrElse(en, OrElse(hi, NoTranscriptAvailable))

\* The code that runs with the text of a finished job.  Variants 1, 3, 4:
\* it is the transcript.  Variant 2: the English job is followed by the
\* Hindi job, a non-empty Hindi text by the transliteration, an empty one
\* by the merge.
JobReturn(text) ==
  IF variant # 2
  THEN /\ transcript' = text
       /\ Finish("transcription")
       /\ Goto(NotesPc)
       /\ UNCHANGED << transcriptEN, transcriptHI, lang >>
  ELSE IF lang = "en-US"
  THEN /\ transcriptEN' = text
       /\ lang' = "hi-IN"
       /\ Goto("start")
       /\ UNCHANGED << transcriptHI, transcript, completed >>
  ELSE IF Truthy(text)
  THEN /\ transcriptHI' = text
       /\ Goto("translit")
       /\ UNCHANGED << transcriptEN, transcript, lang, completed >>
  ELSE /\ transcriptHI' = text
       /\ transcript' = MergeTranscripts(transcriptEN, text)
       /\ Finish("transcription")
       /\ Goto(NotesPc)
       /\ UNCHANGED << transcriptEN, lang >>

\* The loop is left: the job polled is of no further interest.
LeaveLoop ==
  /\ jobFate' = "none"
  /\ jobDelay' = 0
  /\ payload' = <<>>
  /\ polls' = 0

\* transcribe.send(GetTranscriptionJobCommand) and the branch on its status.
Poll ==
  /\ pc = "poll"
  /\ \/ /\ status' = StatusAt(polls, jobDelay, jobFate)
        /\ UNCHANGED pollRaised
        /\ LET b == PollBranch(variant, status', polls) IN
             CASE b = "fetch"  -> /\ Goto("fetch")
                                  /\ polls' = IF polls < MaxPolls THEN polls + 1 ELSE polls
                                  /\ UNCHANGED << jobFate, jobDelay, payload >>
                                  /\ UNCHANGED << textVars, lang, completed >>
               [] b = "wait"   -> /\ Goto("wait")
                                  /\ polls' = IF polls < MaxPolls THEN polls + 1 ELSE polls
                                  /\ UNCHANGED << jobFate, jobDelay, payload >>
                                  /\ UNCHANGED << textVars, lang, completed >>
               [] b = "throw"  -> /\ Throw("transcription", "Transcription failed")
                                  /\ LeaveLoop
                                  /\ UNCHANGED << textVars, lang, completed >>
               [] b = "return" -> /\ JobReturn(<<>>)
                                  /\ LeaveLoop
     \/ /\ pollRaised' = TRUE
        /\ \E m \in ErrMessages("poll") : Throw("transcription", m)
        /\ LeaveLoop
        /\ UNCHANGED << status, textVars, lang, completed >>
  /\ UNCHANGED << reqVars, mediaVars, submitted, translitAnswer, notesVars, pdfVars,
                  outVars, fsys, started >>

\* await new Promise(r => setTimeout(r, 5000)) (4000 in variant 4).
Wait ==
  /\ pc = "wait"
  /\ Goto("poll")
  /\ UNCHANGED << reqVars, mediaVars, jobVars, textVars, notesVars, pdfVars,
                  outVars, fsys, stageVars >>

\* axios.get(TranscriptFileUri) and the extraction of the transcript.
Fetch ==
  /\ pc = "fetch"
  /\ \/ /\ PayloadText(variant, payload) # Raise
        /\ JobReturn(PayloadText(variant, payload))
     \/ /\ PayloadText(variant, payload) = Raise
        /\ Throw("transcription", NoTranscriptEntry)
        /\ UNCHANGED << textVars, lang, completed >>
     \/ /\ \E m \in ErrMessages("fetch") : Throw("transcription", m)
        /\ UNCHANGED << textVars, lang, completed >>
  /\ LeaveLoop
  /\ UNCHANGED << reqVars, mediaVars, status, pollRaised, submitted, translitAnswer,
                  notesVars, pdfVars, outVars, fsys, started >>

\* Variation: a failed transliteration yields no text.
transliterateOrEmpty(text, answer) ==
  IF answer \notin {Raise, NotSuccess} THEN answer ELSE <<>>

\* transliterateHindiToRoman: the romanised text on "SUCCESS", the input
\* text on any other answer and on any error.
transliterateHindiToRoman(text, answer) ==
  IF answer \notin {Raise, NotSuccess} THEN answer ELSE text

Transliterate ==
  /\ pc = "translit"
  /\ \E answer \in {Raise, NotSuccess, Romanized, <<>>} :
       /\ translitAnswer' = answer
       /\ transcriptHI' = transliterateHindiToRoman(transcriptHI, answer)
       /\ transcript' = MergeTranscripts(transcriptEN, transcriptHI')
  /\ Finish("transcription")
  /\ Goto(NotesPc)
  /\ UNCHANGED << reqVars, mediaVars, lang, jobFate, jobDelay, payload, polls,
                  status, pollRaised, submitted, transcriptEN, notesVars, pdfVars,
                  outVars, fsys, started >>

\* Variant 5: openai.audio.transcriptions.create (Whisper), transcription.text.
Whisper ==
  /\ pc = "whisper"
  /\ Begin("transcription")
  /\ \/ /\ \E t \in SpokenTexts : transcript' = t
        /\ Finish("transcription")
        /\ Goto(NotesPc)
     \/ /\ \E m \in ErrMessages("whisper") : Throw("transcription", m)
        /\ UNCHANGED << transcript, completed >>
  /\ UNCHANGED << reqVars, mediaVars, jobVars, transcriptEN, transcriptHI,
                  notesVars, pdfVars, outVars, fsys >>

(* --------------------------- notes generation ------------------------- *)

\* Threshold of the empty-output check of variant 4.
MinNotesLength == 10

\* finalNotes of variants 1, 2 and 4 from the body of the Bedrock response
\* (after JSON.parse; variant 4 keeps the raw body when that fails).
ExtractNotes(v, b, tr) ==
  CASE v = 1 ->
         OrElse(Field(b, "outputText"), OrElse(Field(b, "completions"), NoOutputGenerated))
    [] v = 2 ->
         OrElse(Field(b, "generation"), OrElse(Field(b, "output_text"),
           OrElse(Field(b, "outputs0"), NoOutputGenerated)))
    [] v = 4 ->
         LET probed ==
               IF Truthy(Field(b, "output_text")) THEN Field(b, "output_text")
               ELSE IF Truthy(Field(b, "generation")) THEN Field(b, "generation")
               ELSE IF Truthy(Field(b, "content0")) THEN Field(b, "content0")
               ELSE IF Truthy(Field(b, "outputs0")) THEN Field(b, "outputs0")
               ELSE IF Truthy(Field(b, "output")) THEN Field(b, "output")
               ELSE b.raw
         IN IF ~Truthy(probed) \/ Len(Trim(probed)) < MinNotesLength
            THEN EmptyOutputPrefix \o NumToText(Len(tr))
            ELSE probed
    [] OTHER -> Undefined

\* JSON.parse(bodyString) throws, and nothing around it catches, in
\* variants 1 and 2.
ParseAborts(v, b) == ~b.json /\ v \in {1, 2}

\* Variants 1, 2, 4: bedrock.send(InvokeModelCommand), body to text.
\* Variant 5: openai.chat.completions.create, choices[0].message.content.
GenerateNotes ==
  /\ pc = "llm"
  /\ Begin("notes")
  /\ \/ /\ variant \in {1, 2, 4}
        /\ \E b \in Bodies(variant) :
             /\ parsed' = b
             /\ IF ParseAborts(variant, b)
                THEN /\ \E m \in ErrMessages("parse") : Throw("notes", m)
                     /\ UNCHANGED << finalNotes, completed >>
                ELSE /\ finalNotes' = ExtractNotes(variant, b, transcript)
                     /\ Finish("notes")
                     /\ Goto("render")
     \/ /\ variant = 5
        /\ \E tag \in Tags :
             finalNotes' = CASE tag = "absent" -> Undefined
                             [] tag = "empty"  -> <<>>
                             [] OTHER          -> FieldText("content")
        /\ Finish("notes")
        /\ Goto("render")
        /\ UNCHANGED parsed
     \/ /\ \E m \in ErrMessages("llm") : Throw("notes", m)
        /\ UNCHANGED << parsed, finalNotes, completed >>
  /\ UNCHANGED << reqVars, mediaVars, jobVars, textVars, usedModel, invoked,
                  outcome, returned, pdfVars, outVars, fsys >>

(* ----------------------- fallback chain (variant 3) ------------------- *)

\* Variation: Bedrock is tried after Gemini whether or not Gemini raised.
ChainNextFallsThrough(p, raised) ==
  IF raised /\ p = "ChatGPT" THEN "gemini"
  ELSE IF p = "Gemini" THEN "bedrock"
  ELSE "render"

\* Variation: a ChatGPT failure goes straight to Bedrock.
ChainNextSkipsGemini(p, raised) ==
  IF raised /\ p = "ChatGPT" THEN "bedrock"
  ELSE IF raised /\ p = "Gemini" THEN "bedrock"
  ELSE "render"

\* The call made after provider p's try block: the next provider's when
\* the block raised, the renderer otherwise and after the last provider.
ChainNext(p, raised) ==
  IF raised /\ p = "ChatGPT" THEN "gemini"
  ELSE IF raised /\ p = "Gemini" THEN "bedrock"
  ELSE "render"

\* Variation: the innermost catch does not reset usedModel.
UsedModelKept(p, raised) == p

\* usedModel after provider p's try block.
UsedModelAfter(p, raised) ==
  IF raised /\ p = "Bedrock" THEN "None" ELSE p

\* Variation: the innermost catch leaves finalNotes as it was.
NotesAfterNoPlaceholder(p, text) ==
  IF text = Raise THEN <<>>
  ELSE IF p = "ChatGPT" THEN OrElse(text, <<>>)
  ELSE text

\* finalNotes after provider p's try block whose response carried `text`
\* (Raise: the block raised).  It stays "" while the chain goes on.
NotesAfter(p, text) ==
  IF text = Raise
  THEN (IF p = "Bedrock" THEN FailedAllModels ELSE <<>>)
  ELSE IF p = "ChatGPT" THEN OrElse(text, <<>>)
  ELSE text

\* What the Bedrock block of the chain reads out of a parsed body.
ChainBedrockText(b) ==
  OrElse(Field(b, "generation"), OrElse(Field(b, "output_text"),
    OrElse(Field(b, "output"), OrElse(Field(b, "outputs0"), NoOutputFromBedrock))))

\* One try block of the chain, with `text` what the provider's response
\* carried, or Raise when the call or the reading of its response raised.
Attempt(p, text) ==
  /\ invoked' = Append(invoked, p)
  /\ outcome' = [outcome EXCEPT ![p] = IF text = Raise THEN "raised" ELSE "returned"]
  /\ returned' = [returned EXCEPT ![p] = IF text = Raise THEN Undefined ELSE text]
  /\ usedModel' = UsedModelAfter(p, text = Raise)
  /\ finalNotes' = NotesAfter(p, text)
  /\ Goto(ChainNext(p, text = Raise))
  /\ IF ChainNext(p, text = Raise) = "render"
     THEN Finish("notes") ELSE UNCHANGED completed

\* openai.chat.completions.create; choices[0]?.message?.content || "".
TryChatGPT ==
  /\ pc = "chatgpt"
  /\ Begin("notes")
  /\ \E text \in {Raise, Undefined, <<>>, FieldText("content")} :
       Attempt("ChatGPT", text)
  /\ UNCHANGED << parsed, reqVars, mediaVars, jobVars, textVars, pdfVars, outVars, fsys >>

\* gemModel.generateContent; result.response.text().
TryGemini ==
  /\ pc = "gemini"
  /\ \E text \in {Raise, <<>>, FieldText("text")} : Attempt("Gemini", text)
  /\ UNCHANGED << parsed, reqVars, mediaVars, jobVars, textVars, pdfVars, outVars, fsys,
                  started >>

\* bedrock.send; transformToString; JSON.parse; the field probe.
TryBedrock ==
  /\ pc = "bedrock"
  /\ \/ \E b \in Bodies(3) :
          /\ parsed' = b
          /\ Attempt("Bedrock", IF b.json THEN ChainBedrockText(b) ELSE Raise)
     \/ /\ Attempt("Bedrock", Raise)
        /\ UNCHANGED parsed
  /\ UNCHANGED << reqVars, mediaVars, jobVars, textVars, pdfVars, outVars, fsys,
                  started >>

(* ------------------------------ rendering ----------------------------- *)

\* Variants 2, 3 and 4 build the document inside a promise that resolves
\* on the write stream's "finish"; variants 1 and 5 call doc.end() and go on.
AwaitsFinish(v) == v \in {2, 3, 4}

\* Variation: no variant waits for the stream's "finish".
AfterRenderNoWait(v) == IF v = 5 THEN "respond" ELSE "readpdf"

\* The call made once the renderer's synchronous code has returned.
AfterRender(v) ==
  IF AwaitsFinish(v) THEN "renderWait"
  ELSE IF v = 5 THEN "respond"
  ELSE "readpdf"

\* new PDFDocument, doc.pipe(fs.createWriteStream(pdfPath)), the text
\* calls and doc.end().  The stream opens and writes the file later.
Render ==
  /\ pc = "render"
  /\ Begin("render")
  /\ rendered' = finalNotes
  /\ parsed' = NoBody
  /\ \/ /\ stream' = "pending"
        /\ Goto(AfterRender(variant))
        /\ IF AwaitsFinish(variant) THEN UNCHANGED completed ELSE Finish("render")
     \/ /\ \E m \in ErrMessages("render") : Throw("render", m)
        /\ UNCHANGED << stream, completed >>
  /\ UNCHANGED << reqVars, mediaVars, jobVars, textVars, finalNotes, usedModel,
                  invoked, outcome, returned, linesVars, modernPdfCreated, pdfReadAt, outVars,
                  fsys >>

\* The handler runs synchronous code from doc.end() to its next call in
\* variant 1 (up to fs.readFileSync(pdfPath)) and variant 5 (up to
\* res.send): no stream callback runs in between.
EventLoopTurns == ~(variant = 1 /\ pc = "readpdf") /\ ~(variant = 5 /\ pc = "respond")

\* The write stream's fs.open completes on the thread pool: the file exists.
StreamOpen ==
  /\ stream = "pending"
  /\ stream' = "open"
  /\ fsys' = [fsys EXCEPT !["pdfPath"] = "open"]
  /\ UNCHANGED << reqVars, pc, failed, failedAt, errMessage, mediaVars, jobVars,
                  textVars, notesVars,
                  rendered, linesVars, modernPdfCreated, pdfReadAt,
                  outVars, stageVars >>

\* The stream writes its chunks and emits "finish": the file is whole.
StreamFinish ==
  /\ stream = "open"
  /\ EventLoopTurns
  /\ stream' = "finished"
  /\ fsys' = [fsys EXCEPT !["pdfPath"] = IF @ = "open" THEN "present" ELSE @]
  /\ UNCHANGED << reqVars, pc, failed, failedAt, errMessage, mediaVars, jobVars,
                  textVars, notesVars,
                  rendered, linesVars, modernPdfCreated, pdfReadAt,
                  outVars, stageVars >>

\* await of the rendering promise: stream.on("finish", resolve),
\* stream.on("error", reject); variant 2 then checks fs.existsSync(pdfPath).
RenderWait ==
  /\ pc = "renderWait"
  /\ \/ /\ stream = "finished"
        /\ IF variant = 2 /\ fsys["pdfPath"] = "absent"
           THEN Throw("render", "PDF generation failed") /\ UNCHANGED completed
           ELSE Finish("render") /\ Goto(IF variant = 4 THEN "modern" ELSE "readpdf")
        /\ UNCHANGED stream
     \/ /\ stream \in {"pending", "open"}
        /\ stream' = "errored"
        /\ \E m \in ErrMessages("stream") : Throw("render", m)
        /\ UNCHANGED completed
  /\ UNCHANGED << reqVars, mediaVars, jobVars, textVars, notesVars,
                  rendered, linesVars,
                  modernPdfCreated, pdfReadAt, outVars, fsys, started >>

\* Variation: a failed Puppeteer rendering is rethrown to the handler.
ModernPdfAborts ==
  /\ pc = "modern"
  /\ \E created \in BOOLEAN, written \in BOOLEAN :
       /\ created => written
       /\ modernPdfCreated' = created
       /\ fsys' = [fsys EXCEPT !["modernPdfPath"] = IF written THEN "present" ELSE @]
       /\ IF created THEN Goto("readpdf") ELSE Throw("modern", "modern error")
  /\ UNCHANGED << reqVars, mediaVars, jobVars, textVars, notesVars, stream,
                  rendered, linesVars, pdfReadAt, outVars, stageVars >>

\* Variant 4: the Puppeteer rendering inside its own try/catch;
\* modernPdfCreated = fs.existsSync(modernPdfPath) is its last statement.
ModernPdf ==
  /\ pc = "modern"
  /\ \E created \in BOOLEAN, written \in BOOLEAN :
       /\ created => written
       /\ modernPdfCreated' = created
       /\ fsys' = [fsys EXCEPT !["modernPdfPath"] = IF written THEN "present" ELSE @]
  /\ Goto("readpdf")
  /\ UNCHANGED << reqVars, mediaVars, jobVars, textVars, notesVars, stream,
                  rendered, linesVars, pdfReadAt, outVars, stageVars >>

(* -------------------------- upload and response ----------------------- *)

\* The file read for upload.
pdfToUpload == IF variant = 4 /\ modernPdfCreated THEN "modernPdfPath" ELSE "pdfPath"

\* fs.readFileSync(pdfToUpload): ENOENT when the file is not there yet.
ReadPdf ==
  /\ pc = "readpdf"
  /\ Begin("upload")
  /\ pdfReadAt' = fsys[pdfToUpload]
  /\ IF fsys[pdfToUpload] = "absent"
     THEN Throw("upload", "ENOENT: no such file or directory")
     ELSE Goto("upload")
  /\ UNCHANGED << reqVars, mediaVars, jobVars, textVars, notesVars, stream,
                  rendered, linesVars, modernPdfCreated, outVars, fsys, completed >>

\* Variation: the local files are cleaned as soon as the upload is done.
AfterUploadCleansFirst(v) == "cleanup"

\* The call that follows the PDF upload: the notifications in variant 3,
\* the success response in the others.
AfterUpload(v) == IF v = 3 THEN "email" ELSE "respond"

\* s3.send(PutObjectCommand notes/<name>.pdf) with the buffer read.
UploadPdf ==
  /\ pc = "upload"
  /\ \/ /\ s3' = [s3 EXCEPT !["notes"] = IF pdfReadAt = "open" THEN "partial" ELSE "whole"]
        /\ Finish("upload")
        /\ Goto(AfterUpload(variant))
     \/ /\ \E m \in ErrMessages("s3pdf") : Throw("upload", m)
        /\ UNCHANGED << s3, completed >>
  /\ UNCHANGED << reqVars, mediaVars, jobVars, textVars, notesVars, pdfVars,
                  notified, resp, cleanupTried, warned, fsys, started >>

\* Variation: a failed sendMail is rethrown to the handler.
sendEmailNotificationRethrows ==
  /\ pc = "email"
  /\ \E ok \in BOOLEAN :
       /\ notified' = Append(notified, [kind |-> "email", ok |-> ok])
       /\ IF ok THEN Goto("telegram") ELSE Throw("email", "email error")
  /\ UNCHANGED << reqVars, mediaVars, jobVars, textVars, notesVars, pdfVars,
                  s3, resp, cleanupTried, warned, fsys, stageVars >>

\* sendEmailNotification: its own try/catch swallows a failure.
sendEmailNotification ==
  /\ pc = "email"
  /\ \E ok \in BOOLEAN : notified' = Append(notified, [kind |-> "email", ok |-> ok])
  /\ Goto("telegram")
  /\ UNCHANGED << reqVars, mediaVars, jobVars, textVars, notesVars, pdfVars,
                  s3, resp, cleanupTried, warned, fsys, stageVars >>

\* sendTelegramNotification: its own try/catch swallows a failure.
sendTelegramNotification ==
  /\ pc = "telegram"
  /\ \E ok \in BOOLEAN : notified' = Append(notified, [kind |-> "telegram", ok |-> ok])
  /\ Goto("respond")
  /\ UNCHANGED << reqVars, mediaVars, jobVars, textVars, notesVars, pdfVars,
                  s3, resp, cleanupTried, warned, fsys, stageVars >>

\* res.json({ success: true, pdfUrl }); variant 5 logs "PDF created" and
\* sends a text, with the file in whatever state the stream has brought it to.
Respond ==
  /\ pc = "respond"
  /\ Begin("respond")
  /\ Finish("respond")
  /\ resp' = Append(resp, [status |-> 200, success |-> TRUE,
                           body |-> IF variant = 5 THEN "Lecture processed"
                                    ELSE "notes/" \o pdfToUpload])
  /\ pdfReadAt' = IF variant = 5 THEN fsys["pdfPath"] ELSE pdfReadAt
  /\ Goto(IF variant = 5 THEN "done" ELSE "cleanup")
  /\ UNCHANGED << reqVars, mediaVars, jobVars, textVars, notesVars, stream,
                  rendered, linesVars, modernPdfCreated, s3, notified, cleanupTried,
                  warned, fsys >>

(* -------------------------------- cleanup ----------------------------- *)

\* Variation: the first delete that raises ends the routine.
safeCleanupStopsAtFailure(files, paths, fails) ==
  IF fails = {} THEN [p \in Paths |-> IF p \in paths THEN "absent" ELSE files[p]]
  ELSE files

\* Variation: the routine deletes every local path, listed or not.
safeCleanupEverything(files, paths, fails) ==
  [p \in Paths |-> IF p \notin fails THEN "absent" ELSE files[p]]

\* safeCleanup(paths): every listed path that exists is deleted, unless
\* its delete raises (the paths in `fails`), which is caught and logged.
safeCleanup(files, paths, fails) ==
  [p \in Paths |-> IF p \in paths /\ p \notin fails THEN "absent" ELSE files[p]]

\* if (fs.existsSync(p)): only a path that exists is deleted.
Existing(files, paths) == { p \in paths : files[p] # "absent" }

\* The deletes that may raise in one call.
DeleteFailures(paths) == { F \in SUBSET paths : Cardinality(F) <= MaxDeleteFails }

\* The list cleaned after the success response.
SuccessCleanupPaths == {"framesDir", "audioPath", "videoPath", "pdfPath"}

\* Variation: the catch block cleans the list of the success path.
CatchCleanupPathsWithPdf(v) == IF v = 5 THEN {} ELSE SuccessCleanupPaths

\* The list cleaned in the catch block.
CatchCleanupPaths(v) == IF v = 5 THEN {} ELSE {"framesDir", "audioPath", "videoPath"}

\* Variation: a delete that raises after res.json is not caught in the
\* routine and reaches the handler's catch block.
CleanupSuccessRethrows ==
  /\ pc = "cleanup"
  /\ \E fails \in DeleteFailures(Existing(fsys, SuccessCleanupPaths)) :
       /\ fsys' = safeCleanupStopsAtFailure(fsys, SuccessCleanupPaths, fails)
       /\ warned' = warned
       /\ IF fails = {} THEN Goto("done") ELSE Throw("cleanup", "cleanup error")
  /\ cleanupTried' = cleanupTried \cup SuccessCleanupPaths
  /\ UNCHANGED << reqVars, mediaVars, jobVars, textVars, notesVars, pdfVars,
                  s3, notified, resp, stageVars >>

\* await safeCleanup([framesDir, audioPath, videoPath, pdfPath]) after res.json.
CleanupSuccess ==
  /\ pc = "cleanup"
  /\ \E fails \in DeleteFailures(Existing(fsys, SuccessCleanupPaths)) :
       /\ fsys' = safeCleanup(fsys, SuccessCleanupPaths, fails)
       /\ warned' = warned \cup fails
  /\ cleanupTried' = cleanupTried \cup SuccessCleanupPaths
  /\ Goto("done")
  /\ UNCHANGED << reqVars, mediaVars, jobVars, textVars, notesVars, pdfVars,
                  s3, notified, resp, stageVars >>

\* The error body of the catch block.
ErrorBody(v, msg) ==
  IF v = 4 THEN (IF msg # "" THEN msg ELSE "Processing failed")
  ELSE "Error processing lecture."

\* catch (err): safeCleanup([framesDir, `${videoPath}.wav`, videoPath])
\* (commented out in variant 5), then res.status(500).
Catch ==
  /\ pc = "catch"
  /\ \E fails \in DeleteFailures(Existing(fsys, CatchCleanupPaths(variant))) :
       /\ fsys' = safeCleanup(fsys, CatchCleanupPaths(variant), fails)
       /\ warned' = warned \cup fails
  /\ cleanupTried' = cleanupTried \cup CatchCleanupPaths(variant)
  /\ resp' = Append(resp, [status |-> 500, success |-> FALSE,
                           body |-> ErrorBody(variant, errMessage)])
  /\ parsed' = NoBody
  /\ Goto("done")
  /\ UNCHANGED << reqVars, mediaVars, jobVars, textVars, finalNotes, usedModel,
                  invoked, outcome, returned, pdfVars, s3, notified, stageVars >>

(* ---------------------------- specification --------------------------- *)

Next ==
  \/ Entry
  \/ ExtractAudio
  \/ ExtractFrames
  \/ ReadFrames
  \/ OcrCall
  \/ OcrFrame
  \/ UploadAudio
  \/ StartJob
  \/ Poll
  \/ Wait
  \/ Fetch
  \/ Transliterate
  \/ Whisper
  \/ GenerateNotes
  \/ TryChatGPT
  \/ TryGemini
  \/ TryBedrock
  \/ Render
  \/ StreamOpen
  \/ StreamFinish
  \/ RenderWait
  \/ ModernPdf
  \/ ReadPdf
  \/ UploadPdf
  \/ sendEmailNotification
  \/ sendTelegramNotification
  \/ Respond
  \/ CleanupSuccess
  \/ Catch

Spec == Init /\ [][Next]_vars

\* Every awaited call settles and every timer fires, so a step that can
\* be taken is taken.
FairSpec == Spec /\ WF_vars(Next)

(* ------------------- requests served side by side --------------------- *)

\* The state of the one request followed step by step above.
handlerVars == << variant, hasFile, pc, fsys, failed, failedAt, errMessage, mediaVars,
                 jobVars, textVars, notesVars, pdfVars, outVars, stageVars >>

\* req.file.path
videoPathOf(r) == UploadsDir \o fileName[r]

\* fs.writeFileSync / mkdirSync / a write stream on path by request r:
\* what was at the path is replaced.
Written(files, path, r) ==
  { e \in files : e.path # path } \cup { [path |-> path, by |-> r] }

\* upload.single("video"): multer stores the upload of request r under
\* a name no upload has had, before the handler runs.
MulterStore ==
  \E r \in Requests :
    /\ served[r] = 0
    /\ \E n \in FileNames \ { fileName[q] : q \in Requests } :
         /\ fileName' = [fileName EXCEPT ![r] = n]
         /\ disk' = Written(disk, UploadsDir \o n, r)
    /\ served' = [served EXCEPT ![r] = 1]
    /\ UNCHANGED << handlerVars, jobClock >>

\* const jobName = "lectureTranscription-" + Date.now() of request r
\* (jobBase in variant 2), once the audio file and the frames directory
\* are made and before the PDF is: the clock never goes back, and two
\* reads may give the same millisecond.
NameJob ==
  \E r \in Requests :
    /\ variant # 5
    /\ served[r] \in 1..Len(PathKeys(variant))
    /\ PathKeys(variant)[served[r]] = "framesDir"
    /\ jobClock[r] = 0
    /\ \E t \in 1..MaxClock :
         /\ \A q \in Requests : jobClock[q] <= t
         /\ jobClock' = [jobClock EXCEPT ![r] = t]
    /\ UNCHANGED << handlerVars, fileName, served, disk >>

\* The next of ffmpeg's audio output, fs.mkdirSync(framesDir) and the
\* PDF write streams of request r.
MakePath ==
  \E r \in Requests :
    /\ served[r] \in 1..(Len(PathKeys(variant)) - 1)
    /\ (variant # 5 /\ PathKeys(variant)[served[r]] = "framesDir") => jobClock[r] # 0
    /\ disk' = Written(disk, LocalPath(PathKeys(variant)[served[r] + 1],
                                       videoPathOf(r), variant), r)
    /\ served' = [served EXCEPT ![r] = @ + 1]
    /\ UNCHANGED << handlerVars, fileName, jobClock >>

\* The paths request r gives to safeCleanup: after the response when
\* all its paths are made (the call is commented out in variant 5),
\* in the catch block when it fails before.
CleanedPaths(r) ==
  LET keys == IF served[r] < Len(PathKeys(variant)) THEN CatchCleanupPaths(variant)
              ELSE IF variant = 5 THEN {}
              ELSE SuccessCleanupPaths
  IN { LocalPath(k, videoPathOf(r), variant) : k \in keys }

\* safeCleanup of request r: fs.rmSync / fs.unlinkSync of each path,
\* whoever wrote the file.  The request is over.
RequestEnd ==
  \E r \in Requests :
    /\ served[r] \in 1..Len(PathKeys(variant))
    /\ disk' = { e \in disk : e.path \notin CleanedPaths(r) }
    /\ served' = [served EXCEPT ![r] = Len(PathKeys(variant)) + 1]
    /\ UNCHANGED << handlerVars, fileName, jobClock >>

SharedDiskNext == MulterStore \/ MakePath \/ NameJob \/ RequestEnd

\* Several requests in the handler of one variant, on one local disk.
\* Every request of the shared disk carries an upload: multer has stored
\* req.file before the handler makes its paths.
SharedDiskInit == Init /\ hasFile

SharedDiskSpec == SharedDiskInit /\ [][SharedDiskNext]_vars

(* --------------------------- the PDF renderer -------------------------- *)

\* The notes a handler may hand to its renderer: the text of a populated
\* response field, or a response body that is not JSON.
Documents ==
  { FieldText(f) : f \in {"content", "text", "outputText", "completions"}
                         \cup UNION { ProbedFields(v) : v \in Variants } }
  \cup (InvalidRaw \ {<<>>})

\* The renderers that go through the notes line by line, at their start.
RenderInit == InitAt("render", Documents) /\ variant \in {2, 3, 4} /\ hasFile

\* Variants 2, 3: md.render, the removal of the tags, split and filter.
\* Variant 4: finalNotes.split("\n"), with current = "summary".
SplitLines ==
  /\ pc = "render"
  /\ pc' = "renderLoop"
  /\ pending' = IF variant = 4 THEN Split(finalNotes) ELSE RenderedLines(finalNotes)
  /\ UNCHANGED << reqVars, fsys, failed, failedAt, errMessage, mediaVars, jobVars,
                  textVars, notesVars, stream, rendered, drawn, currents, sections,
                  modernPdfCreated, pdfReadAt, outVars, stageVars >>

\* for (let line of lines) { line = line.trim(); if ... else ... }
DrawLine ==
  /\ pc = "renderLoop"
  /\ variant \in {2, 3}
  /\ pending # <<>>
  /\ drawn' = Append(drawn, [line |-> Trim(Head(pending)),
                             class |-> LineClass(Trim(Head(pending)))])
  /\ pending' = Tail(pending)
  /\ UNCHANGED << reqVars, pc, fsys, failed, failedAt, errMessage, mediaVars, jobVars,
                  textVars, notesVars, stream, rendered, currents, sections,
                  modernPdfCreated, pdfReadAt, outVars, stageVars >>

\* The value of current before the next line is read.
Current == IF currents = <<>> THEN "summary" ELSE currents[Len(currents)].current

\* Variation: a line with a keyword is kept, in the bucket it opens.
BucketLineKeepsKeyword ==
  /\ pc = "renderLoop"
  /\ variant = 4
  /\ pending # <<>>
  /\ LET rawLine == Head(pending)
         k == Keyword(Lower(Trim(rawLine)))
         to == IF k # "none" THEN k ELSE Current
     IN /\ currents' = Append(currents, [raw |-> rawLine, current |-> to])
        /\ sections' = [sections EXCEPT ![to] = @ \o rawLine \o <<"\n">>]
  /\ pending' = Tail(pending)
  /\ UNCHANGED << reqVars, pc, fsys, failed, failedAt, errMessage, mediaVars, jobVars,
                  textVars, notesVars, stream, rendered, drawn, modernPdfCreated,
                  pdfReadAt, outVars, stageVars >>

\* forEach(rawLine => { ... }): a line with a keyword sets current and
\* is dropped, any other line is appended to sections[current].
BucketLine ==
  /\ pc = "renderLoop"
  /\ variant = 4
  /\ pending # <<>>
  /\ LET rawLine == Head(pending)
         k == Keyword(Lower(Trim(rawLine)))
     IN IF k # "none"
        THEN /\ currents' = Append(currents, [raw |-> rawLine, current |-> k])
             /\ UNCHANGED sections
        ELSE /\ currents' = Append(currents, [raw |-> rawLine, current |-> Current])
             /\ sections' = [sections EXCEPT ![Current] = @ \o rawLine \o <<"\n">>]
  /\ pending' = Tail(pending)
  /\ UNCHANGED << reqVars, pc, fsys, failed, failedAt, errMessage, mediaVars, jobVars,
                  textVars, notesVars, stream, rendered, drawn, modernPdfCreated,
                  pdfReadAt, outVars, stageVars >>

RenderNext == SplitLines \/ DrawLine \/ BucketLine

\* The line loops of the renderers on every document.
RenderSpec == RenderInit /\ [][RenderNext]_vars

(* ------------------------- the cleanup routine ------------------------ *)

\* A request whose stages are about to leave their files on the disk.
CleanupInit == InitAt("files", {Undefined}) /\ hasFile

\* The uploaded video, the audio file, the frames directory and the PDFs,
\* each made or not by the time the cleanup is called.
WriteFiles ==
  /\ pc = "files"
  /\ fsys' \in [Paths -> {"absent", "present"}]
  /\ pc' = "cleanup"
  /\ UNCHANGED << reqVars, failed, failedAt, errMessage, mediaVars, jobVars, textVars,
                  notesVars, pdfVars, outVars, stageVars >>

\* One run of safeCleanup(paths) on the disk as it is.
safeCleanupRun(paths) ==
  /\ \E fails \in DeleteFailures(Existing(fsys, paths)) :
       /\ fsys' = safeCleanup(fsys, paths, fails)
       /\ warned' = warned \cup fails
  /\ cleanupTried' = paths
  /\ UNCHANGED << reqVars, failed, failedAt, errMessage, mediaVars, jobVars, textVars,
                  notesVars, pdfVars, s3, notified, resp, stageVars >>

\* await safeCleanup(paths), with any list of local paths.
safeCleanupCall ==
  /\ pc = "cleanup"
  /\ \E paths \in SUBSET Paths : safeCleanupRun(paths)
  /\ pc' = "again"

\* await safeCleanup(paths) once more, with the list of the first call.
safeCleanupAgain ==
  /\ pc = "again"
  /\ safeCleanupRun(cleanupTried)
  /\ pc' = "done"

CleanupNext == WriteFiles \/ safeCleanupCall \/ safeCleanupAgain

\* The cleanup routine called twice with one list on every disk.
CleanupSpec == CleanupInit /\ [][CleanupNext]_vars

(* =============================== claims =============================== *)

Range(seq) == { seq[i] : i \in 1..Len(seq) }

IsPrefix(a, b) == Len(a) <= Len(b) /\ \A i \in 1..Len(a) : a[i] = b[i]

AllRaised == \A p \in Providers : outcome[p] = "raised"

ChainOrder == <<"ChatGPT", "Gemini", "Bedrock">>

\* C1: in the fallback chain, when ChatGPT's block raised and Gemini's
\* returned, finalNotes and the NotesDocument handed to the renderer are
\* Gemini's text, and Bedrock is not invoked in that request.
C1_SecondProviderWins ==
  (outcome["ChatGPT"] = "raised" /\ outcome["Gemini"] = "returned")
    => /\ finalNotes = returned["Gemini"]
       /\ rendered \in {Nothing, returned["Gemini"]}
       /\ "Bedrock" \notin Range(invoked)
       /\ outcome["Bedrock"] = "none"

C1_Witness ==
  /\ variant = 3
  /\ outcome["ChatGPT"] = "raised"
  /\ outcome["Gemini"] = "returned"
  /\ rendered = FieldText("text")
  /\ pc = "done"

\* C2: when all three providers raised, finalNotes is the non-empty
\* "failed to generate" placeholder, nothing was thrown out of the chain
\* (the request is not FAILED because of notes generation) and the next
\* call is the renderer's.
C2_AllFailedPlaceholder ==
  AllRaised
    => /\ finalNotes = FailedAllModels
       /\ Len(finalNotes) > 0
       /\ failedAt # "notes"
       /\ "notes" \in completed
       /\ pc = "render" \/ "render" \in Range(started)

C2_Witness ==
  /\ AllRaised
  /\ rendered = FailedAllModels
  /\ ~failed
  /\ pc = "done"

\* C3: the providers are invoked in the order ChatGPT, Gemini, Bedrock,
\* each at most once, Gemini only after ChatGPT's block raised and Bedrock
\* only after Gemini's block raised.
C3_ChainOrder ==
  /\ IsPrefix(invoked, ChainOrder)
  /\ "Gemini" \in Range(invoked) => outcome["ChatGPT"] = "raised"
  /\ "Bedrock" \in Range(invoked) => outcome["Gemini"] = "raised"

C3_Witness ==
  /\ invoked = ChainOrder
  /\ outcome["Bedrock"] = "returned"

\* C4: the NotesDocument handed to the renderer is a non-empty string, in
\* every variant.
C4_RenderedNotesNonEmpty ==
  rendered # Nothing => Truthy(rendered)

\* C5: once the chain has finished, usedModel names the provider whose
\* block returned, and it is "None" exactly when all three blocks raised.
C5_UsedModel ==
  (variant = 3 /\ "notes" \in completed)
    => /\ usedModel = "None" <=> AllRaised
       /\ usedModel # "None"
            => /\ usedModel \in Providers
               /\ outcome[usedModel] = "returned"
               /\ \A q \in Providers \ {usedModel} : outcome[q] # "returned"

C5_Witness ==
  /\ variant = 3
  /\ "notes" \in completed
  /\ usedModel = "Bedrock"
  /\ outcome["Gemini"] = "raised"

\* C6: a job that answers QUEUED, IN_PROGRESS, ... and then COMPLETED is
\* polled at most once per answer; the loop is left after the COMPLETED
\* answer, and in the one-language variants the transcript is the text of
\* the payload's transcript entry.
C6_PollsWithinPlan ==
  jobFate = "COMPLETED" => polls <= jobDelay + 1

C6_TranscriptIsPayload ==
  [][ (pc = "fetch" /\ variant \in {1, 3, 4} /\ Len(payload) = 1 /\ ~failed')
        => (transcript' = payload[1] /\ pc' = NotesPc) ]_vars

C6_LoopExits ==
  (pc = "poll" /\ jobFate = "COMPLETED") ~> (pc \notin {"poll", "wait", "fetch"})

C6_PollingTerminates ==
  /\ []C6_PollsWithinPlan
  /\ C6_TranscriptIsPayload
  /\ C6_LoopExits

C6_Witness ==
  /\ variant \in {1, 3, 4}
  /\ pc = "fetch"
  /\ jobDelay = MaxDelay
  /\ polls = MaxDelay + 1
  /\ status = "COMPLETED"
  /\ payload = << <<"h", "i">> >>

\* C7: in the one-language variants a FAILED poll aborts the pipeline: no
\* notes generation, rendering or PDF upload follows, and the request ends
\* with cleanup of frames directory, audio file and source video attempted
\* and one non-2xx response with an error body.
C7_FailedJobAborts ==
  (variant \in {1, 3, 4} /\ status = "FAILED")
    => /\ failed
       /\ pc \in {"catch", "done"}
       /\ Range(started) \cap {"notes", "render", "upload", "respond"} = {}
       /\ invoked = <<>>
       /\ s3["notes"] = "none"
       /\ pc = "done"
            => /\ {"framesDir", "audioPath", "videoPath"} \subseteq cleanupTried
               /\ Len(resp) = 1
               /\ resp[1].status = 500
               /\ ~resp[1].success
               /\ resp[1].body # ""

C7_Witness ==
  /\ variant \in {1, 3, 4}
  /\ status = "FAILED"
  /\ pc = "done"
  /\ resp # <<>>

\* C8: while the job's status is neither COMPLETED nor FAILED the loop
\* waits and polls again, whatever the number of polls made: with a job
\* that never ends, and no poll raising, the request stays in the loop,
\* is neither done nor FAILED, and sends no response.
C8_UnboundedPolling ==
  [][ /\ (pc = "poll" /\ ~pollRaised' /\ status' \notin {"COMPLETED", "FAILED"})
           => pc' = "wait"
      /\ pc = "wait" => pc' = "poll"
      /\ (pc \in {"poll", "wait"} /\ jobFate = "STUCK" /\ ~pollRaised')
           => (pc' \in {"poll", "wait"} /\ resp' = <<>> /\ ~failed') ]_vars

C8_Witness ==
  /\ jobFate = "STUCK"
  /\ polls = MaxPolls
  /\ pc = "wait"
  /\ resp = <<>>

\* C9: the PDF file is read for upload, or reported as created, only when
\* the write stream has finished and the file is whole.
C9_ReadAfterFlush ==
  pdfReadAt \in {"none", "present"}

\* The stages of a request, in order (variant 5 uploads no PDF).
StageOrder(v) ==
  IF v = 5
  THEN <<"audio", "frames", "ocr", "transcription", "notes", "render", "respond">>
  ELSE <<"audio", "frames", "ocr", "transcription", "notes", "render", "upload",
         "respond">>

\* C10: the stages start in the fixed order, each only after the stage
\* before it has returned without raising; once the request is FAILED it
\* stays FAILED and starts no further stage.
C10_StagesInOrder ==
  /\ IsPrefix(started, StageOrder(variant))
  /\ \A i \in 1..(Len(started) - 1) : started[i] \in completed

C10_FailedAbsorbing ==
  [][ failed => (failed' /\ started' = started /\ completed' = completed /\ s3' = s3) ]_vars

NoDuplicates(seq) == \A i, j \in 1..Len(seq) : seq[i] = seq[j] => i = j

\* C11: once a stage has raised, control is in the catch block or past it:
\* the stage that raised is the last one started and is started once, no
\* later stage starts, no PDF is uploaded and no success response is sent.
C11_RaisedStageIsLast ==
  /\ NoDuplicates(started)
  /\ failed
       => /\ pc \in {"catch", "done"}
          /\ started # <<>>
          /\ failedAt = started[Len(started)]
          /\ failedAt \notin completed
          /\ s3["notes"] = "none"
          /\ notified = <<>>
          /\ \A i \in 1..Len(resp) : ~resp[i].success

C11_NoStageAfterRaise ==
  [][ failed' => (started' = started \/ (~failed /\ failedAt' = started'[Len(started')])) ]_vars

C11_FailureShortCircuits ==
  /\ []C11_RaisedStageIsLast
  /\ C11_NoStageAfterRaise

C11_Witness ==
  /\ variant \in {1, 3}
  /\ failed
  /\ failedAt = "render"
  /\ completed = {"audio", "frames", "ocr", "transcription", "notes"}
  /\ pc = "done"
  /\ Len(resp) = 1

\* C12: when a request that FAILED has been answered, cleanup of the frames
\* directory, the audio file and the source video has been attempted,
\* whatever stage raised.
C12_CleanupOnEveryFailure ==
  (failed /\ pc = "done")
    => {"framesDir", "audioPath", "videoPath"} \subseteq cleanupTried

\* The paths the cleanup call made at pc is given.
CleanupList ==
  IF pc = "catch" THEN CatchCleanupPaths(variant)
  ELSE IF pc = "cleanup" THEN SuccessCleanupPaths
  ELSE {}

\* The response owed to a request in its current state, cleanup aside.
ResponseOwed ==
  IF failed
  THEN [status |-> 500, success |-> FALSE, body |-> ErrorBody(variant, errMessage)]
  ELSE [status |-> 200, success |-> TRUE,
        body |-> IF variant = 5 THEN "Lecture processed" ELSE "notes/" \o pdfToUpload]

\* C13: a delete that raises during cleanup is caught in the routine:
\* every listed path is still attempted and every one whose delete did
\* not raise is gone, the handler goes on as after a clean run, and the
\* one response of the request is what it is without any warning.
C13_CleanupStep ==
  [][ ( (pc \in {"catch", "cleanup"} /\ pc' # pc)
        => /\ pc' = "done"
           /\ failed' = failed
           /\ errMessage' = errMessage
           /\ CleanupList \subseteq cleanupTried'
           /\ warned' \subseteq CleanupList
           /\ \A q \in CleanupList \ warned' : fsys'[q] = "absent"
           /\ \A q \in warned' : fsys'[q] = fsys[q]
           /\ resp' = (IF pc = "catch" THEN Append(resp, ResponseOwed) ELSE resp)
      ) ]_vars

C13_ResponseUnaffected ==
  (pc = "done" /\ hasFile) => resp = <<ResponseOwed>>

C13_CleanupWarningsContained ==
  /\ C13_CleanupStep
  /\ []C13_ResponseUnaffected

C13_Witness ==
  /\ variant = 3
  /\ pc = "done"
  /\ warned = {"audioPath"}
  /\ fsys["audioPath"] = "present"
  /\ fsys["videoPath"] = "absent"
  /\ fsys["pdfPath"] = "absent"
  /\ Len(resp) = 1
  /\ resp[1].success

SuccessSent == \E i \in 1..Len(resp) : resp[i].success

\* C14: on the success path the local files are handed to cleanup only
\* after the success response has been sent, and a success response that
\* carries the PDF's URL is sent only after the PDF upload has completed.
C14_SuccessOrder ==
  /\ (~failed /\ (pc = "cleanup" \/ cleanupTried # {})) => SuccessSent
  /\ (SuccessSent /\ variant # 5)
       => /\ "upload" \in completed
          /\ s3["notes"] # "none"
          /\ resp[1].body = "notes/" \o pdfToUpload
  /\ (~failed /\ ~SuccessSent /\ hasFile)
       => /\ fsys["videoPath"] = "present"
          /\ "audio" \in completed => fsys["audioPath"] = "present"
          /\ "frames" \in completed => fsys["framesDir"] = "present"

C14_Witness ==
  /\ variant = 4
  /\ ~failed
  /\ pc = "done"
  /\ SuccessCleanupPaths \subseteq cleanupTried
  /\ s3["notes"] = "whole"
  /\ Len(resp) = 1
  /\ resp[1].success
  /\ fsys["pdfPath"] = "absent"

\* The fixed messages the catch blocks hold.
GenericErrorBodies == {"Error processing lecture.", "Processing failed"}

\* C15: the body of a fatal-error response is one of the handlers' fixed
\* messages: it carries neither the stage that failed nor the error's text.
C15_GenericErrorBody ==
  \A i \in 1..Len(resp) : resp[i].status = 500 => resp[i].body \in GenericErrorBodies

\* The handler has run to its end, by returning or by an uncaught error.
HandlerEnded == pc \in {"done", "crashed"}

\* C16: a request whose handler has ended has been answered once, with a
\* success body or with a non-2xx status and an error body; a request
\* without a video file is answered with an error and runs no stage.
C16_EveryRequestAnswered ==
  HandlerEnded
    => /\ Len(resp) = 1
       /\ \/ resp[1].success /\ resp[1].status = 200
          \/ ~resp[1].success /\ resp[1].status >= 300 /\ resp[1].body # ""
       /\ ~hasFile => (~resp[1].success /\ started = <<>>)

\* C17: a pass of the OCR loop never raises out of the loop: a frame whose
\* recognition fails adds no text and the loop goes on to the next frame
\* or ends normally.
C17_FrameFailureContained ==
  [][ pc = "ocrAwait"
        => (~failed' /\ pc' \in {"ocrFrame", AfterOcr} /\ frameIdx' = frameIdx + 1) ]_vars

\* The two results under their section labels, English first.
Labelled(en, hi) == EnglishLabel \o en \o HindiLabel \o hi \o <<"\n">>

\* C18: in the two-language handler the merged transcript is both results
\* under their labels (English first) when both jobs gave text, the one
\* result that is not empty, unlabelled, when one did, and "No transcript
\* available." when none did; a FAILED job does not abort the request.
C18_BothOrHindiOnly ==
  [][ (variant = 2 /\ pc = "translit")
        => /\ Truthy(transcriptHI')
           /\ transcript' = IF Truthy(transcriptEN)
                            THEN Labelled(transcriptEN, transcriptHI')
                            ELSE transcriptHI' ]_vars

C18_EnglishOnlyOrNone ==
  [][ (variant = 2 /\ pc \in {"poll", "fetch"} /\ pc' = NotesPc)
        => /\ ~Truthy(transcriptHI')
           /\ transcript' = IF Truthy(transcriptEN)
                            THEN transcriptEN
                            ELSE NoTranscriptAvailable ]_vars

C18_FailedJobTolerated ==
  [][ (variant = 2 /\ pc = "poll" /\ status' = "FAILED"
         /\ StatusAt(polls, jobDelay, jobFate) = "FAILED")
        => ~failed' ]_vars

C18_MergedTranscript ==
  /\ C18_BothOrHindiOnly
  /\ C18_EnglishOnlyOrNone
  /\ C18_FailedJobTolerated

\* C19: the transliteration step never raises: when the call raises or
\* answers with a status other than SUCCESS, the Hindi text stays what the
\* job gave and the request goes on to the merge and the notes.
C19_TransliterationStep ==
  [][ (variant = 2 /\ pc = "translit")
        => /\ ~failed'
           /\ pc' = NotesPc
           /\ "transcription" \in completed'
           /\ translitAnswer' \in {Raise, NotSuccess} => transcriptHI' = transcriptHI ]_vars

C19_FailureKeepsText ==
  translitAnswer \in {Raise, NotSuccess}
    => /\ Truthy(transcriptHI)
       /\ failedAt # "transcription"
       /\ transcript = IF Truthy(transcriptEN)
                       THEN Labelled(transcriptEN, transcriptHI)
                       ELSE transcriptHI

C19_TransliterationDegrades ==
  /\ C19_TransliterationStep
  /\ []C19_FailureKeepsText

C19_Witness ==
  /\ variant = 2
  /\ translitAnswer = Raise
  /\ transcriptHI = <<"h", "i">>
  /\ "notes" \in completed
  /\ rendered # Nothing

\* The order in which each handler probes the fields of the parsed body.
FieldOrder(v) ==
  CASE v = 1 -> <<"outputText", "completions">>
    [] v = 2 -> <<"generation", "output_text", "outputs0">>
    [] v = 3 -> <<"generation", "output_text", "output", "outputs0">>
    [] v = 4 -> <<"output_text", "generation", "content0", "outputs0", "output">>
    [] OTHER -> <<>>

Populated(b, order) == { i \in 1..Len(order) : Truthy(Field(b, order[i])) }

\* The first populated field in the order, the raw body when there is none.
FirstPopulatedOrRaw(b, order) ==
  IF Populated(b, order) = {} THEN b.raw
  ELSE Field(b, order[CHOOSE i \in Populated(b, order) :
                        \A j \in Populated(b, order) : i <= j])

\* The empty-output message that replaces a text shorter than ten characters.
ReplacedAsEmpty(text, tr) ==
  /\ ~Truthy(text) \/ Len(Trim(text)) < MinNotesLength
  /\ finalNotes = EmptyOutputPrefix \o NumToText(Len(tr))

\* C20: the notes read out of a Bedrock response body are the value of the
\* first populated field in the handler's probing order, and the raw body
\* when no probed field is populated or the body is not JSON; reading the
\* body does not raise.
C20_FirstFieldOrRawBody ==
  parsed # NoBody
    => /\ failedAt # "notes"
       /\ \/ finalNotes = FirstPopulatedOrRaw(parsed, FieldOrder(variant))
          \/ /\ variant = 4
             /\ ReplacedAsEmpty(FirstPopulatedOrRaw(parsed, FieldOrder(variant)), transcript)

\* A text with at least MinNotesLength characters from its first to its
\* last non-blank character.
LongEnough(text) ==
  \E i, j \in 1..Len(text) :
    /\ j - i + 1 >= MinNotesLength
    /\ ~IsSpace(text[i])
    /\ ~IsSpace(text[j])

\* C21: the text read out of the response is replaced by the empty-output
\* notice when it is empty or shorter than ten characters once trimmed,
\* and is the NotesDocument as it stands when it has ten or more.
C21_ShortOutputReplaced ==
  (variant = 4 /\ pc = "render" /\ parsed # NoBody)
    => LET text == FirstPopulatedOrRaw(parsed, FieldOrder(4)) IN
         IF Truthy(text) /\ LongEnough(text)
         THEN finalNotes = text
         ELSE finalNotes = EmptyOutputPrefix \o NumToText(Len(transcript))

C21_Witness ==
  /\ variant = 4
  /\ pc = "render"
  /\ parsed.raw = PaddedNine
  /\ transcript = <<"h", "i">>
  /\ finalNotes = EmptyOutputPrefix \o <<"2">>

\* A line that is bold-wrapped as a whole: it opens and closes with "**".
BoldWrapped(line) ==
  /\ Len(line) >= 4
  /\ StartsWith(line, <<"*", "*">>)
  /\ SubSeq(line, Len(line) - 1, Len(line)) = <<"*", "*">>

\* C22: every line the renderer draws is of one of the four classes, and
\* a line is a heading only if it starts with "#" or is bold-wrapped as a
\* whole line: a line that starts with a bullet or number marker and only
\* contains a bold span is not a heading.
C22_HeadingOnlyIfMarked ==
  \A i \in 1..Len(drawn) :
    /\ drawn[i].class \in {"heading", "bullet", "numbered", "body"}
    /\ drawn[i].class = "heading"
         => StartsWith(drawn[i].line, <<"#">>) \/ BoldWrapped(drawn[i].line)

\* The value of current before line i of the document is read.
CurrentBefore(i) == IF i = 1 THEN "summary" ELSE currents[i - 1].current

\* A line of the document that is written as a heading.
HeadingLine(raw) == StartsWith(Trim(raw), <<"#">>) \/ BoldWrapped(Trim(raw))

\* C23: in the section-aware renderer the current bucket changes only on
\* a heading line that matches a section keyword: a line that is not a
\* heading leaves the current bucket as it was.
C23_BucketChangesOnHeadingsOnly ==
  \A i \in 1..Len(currents) :
    currents[i].current # CurrentBefore(i)
      => HeadingLine(currents[i].raw) /\ Keyword(Lower(Trim(currents[i].raw))) # "none"

\* The local paths of request r, once its upload has a name.
LocalPaths(r) ==
  IF fileName[r] = Nothing THEN {}
  ELSE { LocalPath(PathKeys(variant)[i], videoPathOf(r), variant) :
           i \in 1..Len(PathKeys(variant)) }

\* C24: two requests served at the same time have no local path in
\* common, and a file at a path of one request was written by it.
C24_NoSharedLocalPath ==
  /\ \A r, q \in Requests : r # q => LocalPaths(r) \cap LocalPaths(q) = {}
  /\ \A e \in disk : \A r \in Requests : e.path \in LocalPaths(r) => e.by = r

C24_Witness ==
  \E r, q \in Requests :
    /\ r # q
    /\ served[r] = Len(PathKeys(variant))
    /\ served[q] = Len(PathKeys(variant))
    /\ Cardinality(disk) = 2 * Len(PathKeys(variant))

\* C25: once a request has been answered and its handler has ended, in
\* success or in failure, the uploaded video is no longer on local
\* storage, unless its delete raised.
C25_VideoGoneAtEnd ==
  (HandlerEnded /\ hasFile /\ resp # <<>> /\ "videoPath" \notin warned)
    => fsys["videoPath"] = "absent"

\* A result payload with one transcript, which is empty.
EmptyTranscriptPayload == << <<>> >>

C26_FetchStep ==
  [][ (pc = "fetch" /\ payload = EmptyTranscriptPayload /\ failed')
        => errMessage' \in ErrMessages("fetch") ]_vars

C26_EndsInSuccess ==
  (HandlerEnded /\ ~failed /\ transcript = <<>>)
    => /\ SuccessSent
       /\ {"transcription", "notes", "render"} \subseteq completed
       /\ variant # 5 => "upload" \in completed

\* C26: a job that completes with an empty transcript does not abort the
\* pipeline: the step that reads the result fails only if the download
\* itself raises, and a run whose transcript is empty goes through notes
\* generation, rendering and upload to the success response unless one of
\* those stages raises.
C26_EmptyTranscriptTolerated == []C26_EndsInSuccess /\ C26_FetchStep

C26_Witness ==
  /\ variant \in {3, 4}
  /\ status = "COMPLETED"
  /\ transcript = <<>>
  /\ pc = "done"
  /\ SuccessSent
  /\ s3["notes"] = "whole"

\* C27: a transcription job is submitted only after the request's audio
\* file has been uploaded to object storage: while the upload has not
\* succeeded, and so when it raised, no job has been submitted.
C27_JobAfterAudioUpload ==
  /\ submitted # <<>> => s3["audio"] = "whole"
  /\ (failed /\ s3["audio"] = "none") => submitted = <<>>

C27_Witness ==
  /\ variant = 4
  /\ pc = "poll"
  /\ s3["audio"] = "whole"
  /\ submitted = <<"en-US">>

\* C28: within one request at most one OCR call is in flight: the call
\* for a frame is made only when the call for the frame before it has
\* returned or raised.
C28_OneOcrCallAtATime ==
  /\ Cardinality(ocrPending) <= 1
  /\ \A f \in ocrPending : f = frameIdx + 1

C28_Witness ==
  /\ pc = "ocrAwait"
  /\ frameFiles = MaxFrames
  /\ frameIdx = 1
  /\ ocrPending = {2}

\* C29: a frame whose OCR result is blank adds nothing to the visual
\* text: every pass of the OCR loop keeps the text gathered so far and
\* either leaves it as it is or appends text that is not blank.
C29_BlankFramesSkipped ==
  [][ (pc = "ocrAwait" /\ ~failed')
        => (/\ IsPrefix(visualText, visualText')
            /\ \/ visualText' = visualText
               \/ NonBlank(From(visualText', Len(visualText) + 1))) ]_vars

C30_HindiSubmission ==
  [][ (variant = 2 /\ Len(submitted') = 2 /\ Len(submitted) = 1)
        => (/\ submitted' = <<"en-US", "hi-IN">>
            /\ status \in {"COMPLETED", "FAILED"}
            /\ transcriptEN # Undefined) ]_vars

C30_RaiseAborts ==
  (variant = 2 /\ failedAt = "transcription")
    => /\ transcript = Undefined
       /\ "transcription" \notin completed
       /\ "notes" \notin Range(started)
       /\ pc \notin {"start", "poll", "wait", "fetch", "translit"}
       /\ lang = "en-US" => (Len(submitted) <= 1 /\ transcriptHI = Undefined)

\* C30: in the handler with two languages the jobs run one after the
\* other: the Hindi job is submitted only once the English job has been
\* reported COMPLETED or FAILED, and an error raised while submitting,
\* polling or fetching either job ends the pipeline: no later job and no
\* later stage is run.
C30_JobsInSequence == []C30_RaiseAborts /\ C30_HindiSubmission

C30_Witness ==
  /\ variant = 2
  /\ failedAt = "transcription"
  /\ submitted = <<"en-US", "hi-IN">>
  /\ Truthy(transcriptEN)
  /\ pollRaised

\* C31: two requests served at the same time never submit or poll a
\* transcription job under the same job name.
C31_JobNamesDistinct ==
  \A r, q \in Requests :
    (r # q /\ jobClock[r] # 0 /\ jobClock[q] # 0) => jobClock[r] # jobClock[q]

\* C32: at most one HTTP response is sent per request: never the success
\* response and the error response both, and neither of them twice.
C32_AtMostOneResponse == Len(resp) <= 1

\* The success response is out and a delete of the cleanup that follows it
\* has raised.
C32_Witness ==
  /\ pc = "done"
  /\ resp # <<>>
  /\ resp[1].success
  /\ warned # {}

\* C33: when every awaited call settles and every submitted job reaches
\* COMPLETED or FAILED, a request that carries a video file is eventually
\* answered and its cleanup is eventually run.
C33_AnsweredAndCleaned ==
  (pc = "entry" /\ hasFile)
    ~> (jobFate = "STUCK" \/ (resp # <<>> /\ cleanupTried # {}))

\* C34: in the notifying variant the email and the Telegram notification
\* are attempted only once the PDF is uploaded and before the success
\* response; whether they succeed or fail, the Telegram notification
\* follows the email, no failure is raised, and the request ends with the
\* success response for the uploaded PDF and the full cleanup.
C34_NotifyStep ==
  [][ (pc \in {"email", "telegram"})
        => /\ variant = 3
           /\ "upload" \in completed
           /\ resp = <<>> /\ resp' = <<>>
           /\ ~failed'
           /\ Len(notified') = Len(notified) + 1
           /\ pc' = (IF pc = "email" THEN "telegram" ELSE "respond")
           /\ cleanupTried' = cleanupTried /\ fsys' = fsys ]_vars

C34_NotifiedOutcome ==
  /\ notified # <<>> => (variant = 3 /\ "upload" \in completed)
  /\ (variant = 3 /\ SuccessSent)
       => /\ Len(notified) = 2
          /\ notified[1].kind = "email" /\ notified[2].kind = "telegram"
          /\ resp = << [status |-> 200, success |-> TRUE,
                        body |-> "notes/" \o pdfToUpload] >>
  /\ (variant = 3 /\ pc = "done" /\ notified # <<>>)
       => (~failed /\ cleanupTried = SuccessCleanupPaths)

C34_NotificationsContained == []C34_NotifiedOutcome /\ C34_NotifyStep

\* The email failed, the Telegram message went out, and the request has
\* ended with its success response.
C34_Witness ==
  /\ pc = "done"
  /\ Len(notified) = 2
  /\ ~notified[1].ok
  /\ notified[2].ok
  /\ SuccessSent

\* C35: the catch block cleans the frames directory, the audio file and
\* the source video and nothing else: when reading or uploading the PDF
\* fails in a handler that awaited the rendering, the rendered PDF (and
\* the browser rendering, when one was created) is still on disk once the
\* request has ended.
C35_CatchStep ==
  [][ (pc = "catch" /\ pc' = "done")
        => /\ cleanupTried' = cleanupTried \cup CatchCleanupPaths(variant)
           /\ fsys'["pdfPath"] = fsys["pdfPath"]
           /\ fsys'["modernPdfPath"] = fsys["modernPdfPath"] ]_vars

C35_PdfKept ==
  /\ failed => "pdfPath" \notin cleanupTried
  /\ (pc = "done" /\ failed /\ failedAt = "upload" /\ variant \in {2, 3, 4})
       => /\ cleanupTried = {"framesDir", "audioPath", "videoPath"}
          /\ fsys["pdfPath"] = "present"
          /\ modernPdfCreated => fsys["modernPdfPath"] = "present"

C35_FailureLeavesPdf == []C35_PdfKept /\ C35_CatchStep

\* The PDF upload raised, the catch block has run, and the three listed
\* paths are gone while the PDF is there.
C35_Witness ==
  /\ pc = "done"
  /\ failed
  /\ failedAt = "upload"
  /\ variant \in {3, 4}
  /\ fsys["videoPath"] = "absent"
  /\ fsys["audioPath"] = "absent"
  /\ fsys["framesDir"] = "absent"
  /\ fsys["pdfPath"] = "present"

\* C36: in the two-renderer variant the Puppeteer rendering never aborts
\* the pipeline, whether it fails or not: the file read and uploaded is
\* the modern PDF exactly when modernPdfCreated is set and the classic PDF
\* otherwise, the read finds the file, and the success response names it.
C36_ModernStep ==
  [][ (pc = "modern")
        => (variant = 4 /\ pc' = "readpdf" /\ ~failed' /\ resp' = resp) ]_vars

C36_ReadStep ==
  [][ (pc = "readpdf" /\ variant = 4)
        => /\ pc' = "upload" /\ ~failed'
           /\ pdfReadAt' = fsys[IF modernPdfCreated THEN "modernPdfPath" ELSE "pdfPath"]
           /\ pdfReadAt' = "present" ]_vars

C36_Uploaded ==
  /\ modernPdfCreated => (variant = 4 /\ fsys["modernPdfPath"] = "present")
  /\ (variant = 4 /\ SuccessSent)
       => resp[1].body = "notes/" \o (IF modernPdfCreated THEN "modernPdfPath"
                                                          ELSE "pdfPath")

C36_ModernFailureTolerated == []C36_Uploaded /\ C36_ModernStep /\ C36_ReadStep

\* The Puppeteer rendering failed and the request has ended with the
\* success response for the classic PDF.
C36_Witness ==
  /\ variant = 4
  /\ pc = "done"
  /\ ~modernPdfCreated
  /\ resp # <<>>
  /\ resp[1].body = "notes/pdfPath"

\* The lines among the first n read that match no keyword and were read
\* while `key` was current, each followed by "\n", in the order read.
RECURSIVE LinesOf(_, _)
LinesOf(key, n) ==
  IF n = 0 THEN <<>>
  ELSE LinesOf(key, n - 1)
       \o (IF CurrentBefore(n) = key /\ Keyword(Lower(Trim(currents[n].raw))) = "none"
           THEN currents[n].raw \o <<"\n">>
           ELSE <<>>)

\* C37: in the section-aware renderer every bucket holds exactly the
\* lines that match no keyword and were read while it was current
\* ("summary" at the start), in the order of the input; a line with a
\* keyword is in no bucket, and a line without one is in one bucket only.
C37_BucketsPartitionLines ==
  variant = 4
    => /\ \A i \in 1..Len(SectionKeys) :
            sections[SectionKeys[i]] = LinesOf(SectionKeys[i], Len(currents))
       /\ \A n \in 1..Len(currents) :
            Keyword(Lower(Trim(currents[n].raw))) = "none"
              => currents[n].current = CurrentBefore(n)

\* A whole document has been read: it had a keyword line, and lines went
\* to two buckets.
C37_Witness ==
  /\ variant = 4
  /\ pc = "renderLoop"
  /\ pending = <<>>
  /\ \E n \in 1..Len(currents) : Keyword(Lower(Trim(currents[n].raw))) # "none"
  /\ sections["summary"] # <<>>
  /\ \E i \in 2..Len(SectionKeys) : sections[SectionKeys[i]] # <<>>

\* What every run of the cleanup routine does: it raises nothing, leaves
\* every path outside its list as it was, leaves a missing path missing
\* without a warning, and removes every listed path whose delete did not
\* raise.
CleanupRunConfined ==
  /\ ~failed' /\ pc' \in {"again", "done"}
  /\ \A p \in Paths \ cleanupTried' : fsys'[p] = fsys[p]
  /\ \A p \in Paths : fsys[p] = "absent" => (fsys'[p] = "absent" /\ p \notin warned' \ warned)
  /\ \A p \in cleanupTried' : fsys'[p] = "absent" \/ p \in warned'

\* C38: the cleanup routine removes only the listed paths, treats a
\* listed path that does not exist as a no-op, never throws, and a second
\* run with the same list leaves the disk as the first run left it.
C38_CleanupIdempotent ==
  [][ (pc \in {"cleanup", "again"})
        => /\ CleanupRunConfined
           /\ pc = "again" => fsys' = fsys ]_vars

\* C38, amended: as above, but the second run leaves the disk as the
\* first left it when no delete of the first run raised; after a delete
\* that raised, the second run may remove the path the first one left.
C38_IdempotentAfterCleanRun ==
  [][ (pc \in {"cleanup", "again"})
        => /\ CleanupRunConfined
           /\ (pc = "again" /\ warned = {}) => (fsys' = fsys /\ warned' = {})
           /\ pc = "again" => \A p \in Paths : fsys'[p] \in {fsys[p], "absent"} ]_vars

\* Two runs with a list that held a missing path: no delete raised, the
\* listed paths are gone and a path outside the list is still there.
C38_Witness ==
  /\ pc = "done"
  /\ resp = <<>>
  /\ warned = {}
  /\ cleanupTried = {"framesDir", "audioPath", "videoPath"}
  /\ fsys = [p \in Paths |-> IF p = "pdfPath" THEN "present" ELSE "absent"]

=============================================================================
